---- MODULE Spec2Model ----
(***************************************************************************)
(* Upload lifecycle and optimistic-concurrency mutation protocol of the    *)
(* asset API (backend/apps/api).  Every resolver is split at its awaits:   *)
(* one action per database / storage / hashing round trip, with the local  *)
(* code that follows the response folded into the same action.  Requests   *)
(* run in the concurrent slots Slots; a slot that has answered is reused.  *)
(***************************************************************************)
EXTENDS Integers, Sequences, FiniteSets, TLC

\* ------------------------------------------------------------------ bounds
MaxVersion == 3
MaxProgress == 2
SizeMargin == 30
MaxInputLength == 5
MaxStamp == 4
MaxTasks == 3
LongMargin == 2
MaxFirst == 3

\* ------------------------------------------------------- program constants
UPLOAD_TICKET_TTL == 300
MaxNameLength == 255
MaxBaseLength == 250

\* the concurrent requests the server is handling
Slots == {1, 2}
Users == {"alice", "bob"}
AssetIds == {"a1"}
Versions == 1..MaxVersion

\* the hashing service answers in upper case, clients send lower case
ServerDigests == {"ABC123"}
ClientDigests == {"abc123", "def456"}

\* filenames are sequences of one-character strings
ValidNames == {<<"a">>}
CreateNames == ValidNames \cup {<<".", ".">>}
RenameNames == {<<"b">>, <<".", ".", "/">>}

\* the server: tables, object store, clock and the requests being handled
VARIABLES asset, ticket, share, object, signedUrl, now, req, issued, finalized
\* the browser: the UploadManager's map of abort controllers, its running
\* uploadFile and retryUpload call, the reports made to the progress sink, the
\* page's upload cards and the requests put on the network
VARIABLES uploads, run, retry, sink, cards, sent
\* a validator applied to an input
VARIABLES arg, ret
\* the page: the alert an asset card has shown last
VARIABLES alert
\* the download_audit table
VARIABLES download_audit
\* the OfflineQueue: its queue and processing flag, navigator.onLine, an online
\* event not yet delivered, the tasks being awaited, the number of tasks added
\* and how the awaited tasks have settled so far
VARIABLES queue, processing, onLine, pending, running, added, settled

server == <<asset, ticket, share, object, signedUrl, now, req, issued, finalized>>
browser == <<uploads, run, retry, sink, cards, sent>>
validator == <<arg, ret>>
page == <<alert>>
audit == <<download_audit>>
offline == <<queue, processing, onLine, pending, running, added, settled>>
vars == <<server, browser, validator, page, audit, offline>>
db == <<asset, ticket, share, object>>

\* ------------------------------------------------------------- rows, results
NoRow == [id |-> "none"]
NoName == <<>>

AssetRow(id, owner, filename, path) ==
    [id |-> id, owner_id |-> owner, filename |-> filename, storage_path |-> path,
     status |-> "draft", version |-> 1, sha256 |-> "null"]

TicketRow(id, user, path, expires) ==
    [asset_id |-> id, user_id |-> user, storage_path |-> path,
     expires_at |-> expires, used |-> FALSE]

NoRes ==
    [code |-> "none", currentVersion |-> 0, expectedVersion |-> 0,
     clientHash |-> "", serverHash |-> "", data |-> NoRow]

Ok(row) == [NoRes EXCEPT !.code = "ok", !.data = row]
Err(c) == [NoRes EXCEPT !.code = c]

Idle ==
    [op |-> "idle", pc |-> "idle", user |-> "", assetId |-> "", version |-> 0,
     filename |-> NoName, clientSha256 |-> "", toUser |-> "", canDownload |-> FALSE,
     ticket |-> NoRow, serverSha256 |-> "", path |-> NoName, after |-> FALSE,
     res |-> NoRes]

\* ------------------------------------------------------------ pure helpers
ToLowerCase(s) ==
    CASE s = "ABC123" -> "abc123"
      [] s = "A" -> "a"
      [] s = "DEF456" -> "def456"
      [] OTHER -> s

\* supabase-js .single(): exactly one row or an error, never a null without one
Single(rows) ==
    IF Cardinality(rows) = 1
    THEN [data |-> CHOOSE x \in rows : TRUE, error |-> FALSE]
    ELSE [data |-> NoRow, error |-> TRUE]

AssetById(id) == IF asset[id] = NoRow THEN {} ELSE {asset[id]}

\* a selection by id that does not compare the version
AssetByIdAnyVersion(id, v) == AssetById(id)

\* .eq('id', id).eq('version', v)
AssetByIdVersion(id, v) == {x \in AssetById(id) : x.version = v}

\* a ticket lookup by asset_id alone
TicketForAsset(id, user) ==
    IF ticket[id] = NoRow THEN {} ELSE {ticket[id]}

\* from('upload_ticket').eq('asset_id', assetId).eq('user_id', user.id)
TicketFor(id, user) ==
    IF ticket[id] = NoRow THEN {} ELSE {x \in {ticket[id]} : x.user_id = user}

\* ------------------------------------------------------- filename validation
\* the places where the two characters a, b stand next to each other
Pairs(s, a, b) == {i \in 1..(Len(s) - 1) : s[i] = a /\ s[i + 1] = b}

First(places) == CHOOSE i \in places : \A j \in places : i <= j

\* replace(/\.\./g, ""): the matches are taken from the left and do not overlap
RECURSIVE RemoveDotDot(_)
RemoveDotDot(s) ==
    IF Pairs(s, ".", ".") = {} THEN s
    ELSE LET i == First(Pairs(s, ".", "."))
         IN  SubSeq(s, 1, i - 1) \o RemoveDotDot(SubSeq(s, i + 2, Len(s)))

RemoveSeparators(s) == SelectSeq(s, LAMBDA c : c \notin {"/", "\\"})

\* NFC: a base letter followed by a combining accent composes into one character
RECURSIVE NormalizeNFC(_)
NormalizeNFC(s) ==
    IF Pairs(s, "e", "'") = {} THEN s
    ELSE LET i == First(Pairs(s, "e", "'"))
         IN  SubSeq(s, 1, i - 1) \o <<"E">> \o NormalizeNFC(SubSeq(s, i + 2, Len(s)))

RemoveControl(s) == SelectSeq(s, LAMBDA c : c # "\t")

RECURSIVE DropLeading(_, _)
DropLeading(s, cs) ==
    IF s # <<>> /\ s[1] \in cs THEN DropLeading(Tail(s), cs) ELSE s

RECURSIVE DropTrailing(_, _)
DropTrailing(s, cs) ==
    IF s # <<>> /\ s[Len(s)] \in cs
    THEN DropTrailing(SubSeq(s, 1, Len(s) - 1), cs) ELSE s

Trim(s) == DropTrailing(DropLeading(s, {" ", "\t"}), {" ", "\t"})

StripDots(s) == DropTrailing(DropLeading(s, {"."}), {"."})

\* lastIndexOf(".") counted from 1; 0 when there is no dot
LastIndexOfDot(s) ==
    LET dots == {i \in 1..Len(s) : s[i] = "."}
    IN  IF dots = {} THEN 0 ELSE CHOOSE i \in dots : \A j \in dots : j <= i

Min(a, b) == IF a < b THEN a ELSE b
Max(a, b) == IF a < b THEN b ELSE a

\* JavaScript substring(0, n): a negative n counts as 0
Prefix(s, n) == SubSeq(s, 1, Min(Len(s), Max(n, 0)))

LimitLength(safe) ==
    IF Len(safe) > MaxNameLength
    THEN LET lastDotIndex == LastIndexOfDot(safe) - 1
         IN  IF lastDotIndex > 0
             THEN LET ext == SubSeq(safe, lastDotIndex + 1, Len(safe))
                      nameWithoutExt == SubSeq(safe, 1, lastDotIndex)
                  IN  Prefix(nameWithoutExt, MaxBaseLength - Len(ext)) \o ext
             ELSE Prefix(safe, MaxNameLength)
    ELSE safe

\* the sanitized name; <<>> stands for the BAD_REQUEST the function throws
sanitizeFilename(filename) ==
    IF filename = <<>> THEN <<>>
    ELSE LimitLength(StripDots(Trim(RemoveControl(NormalizeNFC(
             RemoveSeparators(RemoveDotDot(filename)))))))

generateStoragePath(userId, assetId, filename) ==
    <<userId, assetId, sanitizeFilename(filename)>>

\* ------------------------------------------------------------ version guard
\* a guard that compares the version before the owner
GuardCodeVersionFirst(found, userId, expectedVersion) ==
    IF found.error \/ found.data = NoRow THEN "NOT_FOUND"
    ELSE IF found.data.version # expectedVersion THEN "VERSION_CONFLICT"
    ELSE IF found.data.owner_id # userId THEN "FORBIDDEN"
    ELSE "pass"

\* the code of the error the guard throws, "pass" when it runs the operation
GuardCode(found, userId, expectedVersion) ==
    IF found.error \/ found.data = NoRow THEN "NOT_FOUND"
    ELSE IF found.data.owner_id # userId THEN "FORBIDDEN"
    ELSE IF found.data.version # expectedVersion THEN "VERSION_CONFLICT"
    ELSE "pass"

withVersionGuard(assetId, expectedVersion, userId) ==
    LET found == Single(AssetById(assetId))
        code == GuardCode(found, userId, expectedVersion)
    IN  IF code = "VERSION_CONFLICT"
        THEN [Err(code) EXCEPT !.currentVersion = found.data.version,
                               !.expectedVersion = expectedVersion]
        ELSE Err(code)

\* ------------------------------------------------------------------- state
ServerInit ==
    /\ asset = [a \in AssetIds |-> NoRow]
    /\ ticket = [a \in AssetIds |-> NoRow]
    /\ share = {}
    /\ object = {}
    /\ signedUrl = {}
    /\ now = 0
    /\ req = [r \in Slots |-> Idle]
    /\ issued = {}
    /\ finalized = {}
    /\ download_audit = {}

\* a call of uploadFile: its position, its arguments, its locals, its AbortController
NoRun ==
    [pc |-> "idle", file |-> "", simulateFlaky |-> FALSE, uploadId |-> "",
     assetId |-> "", clientSha256 |-> "", aborted |-> FALSE, xhrAborted |-> FALSE,
     events |-> 0]

\* a call of retryUpload
NoRetry == [pc |-> "idle", file |-> "", assetId |-> "", clientSha256 |-> ""]

\* new OfflineQueue(): queue = [], processing = false; the browser starts online
OfflineInit ==
    /\ queue = <<>>
    /\ processing = FALSE
    /\ onLine = TRUE
    /\ pending = FALSE
    /\ running = {}
    /\ added = 0
    /\ settled = {}

BrowserInit ==
    /\ uploads = {}
    /\ run = NoRun
    /\ retry = NoRetry
    /\ sink = <<>>
    /\ cards = {}
    /\ sent = <<>>
    /\ alert = "none"
    /\ OfflineInit

NoArg == <<>>
NoRet == [code |-> "none"]

Init ==
    /\ ServerInit
    /\ BrowserInit
    /\ arg = NoArg
    /\ ret = NoRet

Free(r) == req[r].pc = "idle"
At(r, pc) == req[r].pc = pc
\* a call that has answered keeps its arguments of record and its result; its
\* other locals are dead
Done(call, res) ==
    [Idle EXCEPT !.op = call.op, !.pc = "done", !.user = call.user,
                 !.assetId = call.assetId, !.version = call.version,
                 !.toUser = call.toUser, !.after = call.after, !.res = res]
Finish(r, res) == req' = [req EXCEPT ![r] = Done(req[r], res)]
Goto(r, pc) == req' = [req EXCEPT ![r].pc = pc]

Begin(r, op, userId, assetId, version) ==
    [Idle EXCEPT !.op = op, !.user = userId, !.assetId = assetId, !.version = version]

\* ---------------------------------------------------------- createUploadUrl
ALLOWED_MIME_TYPES == {"image/jpeg", "image/png", "image/webp", "application/pdf"}
MAX_FILE_SIZE == 50 * 1024 * 1024

\* a validator that lets HTML documents through
validateMimeTypeLax(mime) == mime \in ALLOWED_MIME_TYPES \cup {"text/html"}

validateMimeType(mime) == mime \in ALLOWED_MIME_TYPES

\* a size check that refuses a file of exactly the maximum size
validateFileSizeBelowMax(size) == ~(size <= 0 \/ size >= MAX_FILE_SIZE)

\* throws when size <= 0 || size > MAX_FILE_SIZE
validateFileSize(size) == ~(size <= 0 \/ size > MAX_FILE_SIZE)

Mimes == {"image/jpeg", "text/html"}
Sizes == {0, 1024, MAX_FILE_SIZE + 1}

\* validation; then a fresh id and the insert of the draft asset row
CreateUploadUrl(r, userId, filename, mime, size, inserted) ==
    /\ Free(r)
    /\ LET safeFilename == sanitizeFilename(filename)
       IN  IF ~validateMimeType(mime) \/ ~validateFileSize(size) \/ safeFilename = <<>>
           THEN /\ req' = [req EXCEPT ![r] =
                       Done(Begin(r, "createUploadUrl", userId, "", 0), Err("BAD_REQUEST"))]
                /\ UNCHANGED <<asset, issued>>
           ELSE \E assetId \in AssetIds \ issued :
                  LET storagePath == generateStoragePath(userId, assetId, safeFilename)
                      call == [Begin(r, "createUploadUrl", userId, assetId, 0)
                                 EXCEPT !.filename = filename, !.path = storagePath]
                  IN  /\ issued' = issued \cup {assetId}
                      /\ IF inserted
                         THEN /\ asset' = [asset EXCEPT ![assetId] =
                                     AssetRow(assetId, userId, safeFilename, storagePath)]
                              /\ req' = [req EXCEPT ![r] = [call EXCEPT !.pc = "create_ticket"]]
                         ELSE /\ req' = [req EXCEPT ![r] = Done(call, Err("BAD_REQUEST"))]
                              /\ UNCHANGED asset
    /\ UNCHANGED <<ticket, share, object, signedUrl, now, finalized>>
    /\ UNCHANGED <<browser, validator, page, audit, offline>>

CreateTicket(r, inserted) ==
    /\ At(r, "create_ticket")
    /\ IF inserted
       THEN /\ ticket' = [ticket EXCEPT ![req[r].assetId] =
                   TicketRow(req[r].assetId, req[r].user, req[r].path,
                             now + UPLOAD_TICKET_TTL)]
            /\ req' = [req EXCEPT ![r].pc = "create_url",
                                  ![r].ticket = ticket'[req[r].assetId]]
       ELSE /\ Finish(r, Err("BAD_REQUEST"))
            /\ UNCHANGED ticket
    /\ UNCHANGED <<asset, share, object, signedUrl, now, issued, finalized>>
    /\ UNCHANGED <<browser, validator, page, audit, offline>>

CreateSignedUrl(r, signed) ==
    /\ At(r, "create_url")
    /\ IF signed
       THEN /\ signedUrl' = signedUrl \cup {req[r].path}
            /\ Finish(r, Ok([id |-> req[r].assetId, storage_path |-> req[r].path,
                             expires_at |-> req[r].ticket.expires_at]))
       ELSE /\ Finish(r, Err("BAD_REQUEST"))
            /\ UNCHANGED signedUrl
    /\ UNCHANGED <<asset, ticket, share, object, now, issued, finalized>>
    /\ UNCHANGED <<browser, validator, page, audit, offline>>

\* the client's PUT to the single-use signed upload URL
PutObject(path, sha) ==
    /\ path \in signedUrl
    /\ signedUrl' = signedUrl \ {path}
    /\ object' = {o \in object : o.path # path} \cup {[path |-> path, sha256 |-> sha]}
    /\ UNCHANGED <<asset, ticket, share, now, req, issued, finalized>>
    /\ UNCHANGED <<browser, validator, page, audit, offline>>

\* time passes, up to the instants around a ticket's expiry
ExpiryOffsets == {0, 1}

Tick(t) ==
    /\ t > now
    /\ \E a \in AssetIds, d \in ExpiryOffsets :
         ticket[a] # NoRow /\ t = ticket[a].expires_at + d
    /\ now' = t
    /\ UNCHANGED <<asset, ticket, share, object, signedUrl, req, issued, finalized>>
    /\ UNCHANGED <<browser, validator, page, audit, offline>>

Respond(r) ==
    /\ At(r, "done")
    /\ req' = [req EXCEPT ![r] = Idle]
    /\ UNCHANGED <<asset, ticket, share, object, signedUrl, now, issued, finalized>>
    /\ UNCHANGED <<browser, validator, page, audit, offline>>

\* ----------------------------------------------------------- finalizeUpload
\* an expiry test that counts the instant of expiry as expired
ExpiredAtInstant(t) == t.expires_at <= now

\* new Date(ticket.expires_at) < new Date()
Expired(t) == t.expires_at < now

\* a finalize that marks the ticket without looking at its expiry
CheckExpirySkipped(call) == [call EXCEPT !.pc = "fin_mark"]

\* after the replay check: the expiry check, then on to marking the ticket
CheckExpiry(call) ==
    IF Expired(call.ticket)
    THEN Done(call, Err("BAD_REQUEST"))
    ELSE [call EXCEPT !.pc = "fin_mark"]

\* the ticket lookup by (asset_id, user_id)
FinalizeUpload(r, userId, assetId, clientSha256, version) ==
    /\ Free(r)
    /\ LET found == Single(TicketFor(assetId, userId))
           call == [Begin(r, "finalizeUpload", userId, assetId, version)
                      EXCEPT !.clientSha256 = clientSha256, !.ticket = found.data,
                             !.after = assetId \in finalized]
       IN  req' = [req EXCEPT ![r] =
                IF found.error \/ found.data = NoRow
                THEN Done(call, Err("BAD_REQUEST"))
                ELSE IF found.data.used THEN [call EXCEPT !.pc = "fin_replay"]
                ELSE CheckExpiry(call)]
    /\ UNCHANGED <<asset, ticket, share, object, signedUrl, now, issued, finalized>>
    /\ UNCHANGED <<browser, validator, page, audit, offline>>

\* a replay check that looks at the expiry first
ReplayAnswerExpiryFirst(call, existingAsset) ==
    IF Expired(call.ticket) THEN Done(call, Err("BAD_REQUEST"))
    ELSE IF existingAsset # NoRow /\ existingAsset.status = "ready"
    THEN Done(call, Ok(existingAsset))
    ELSE [call EXCEPT !.pc = "fin_mark"]

\* if (existingAsset && existingAsset.status === 'ready') return it; else go on
ReplayAnswer(call, existingAsset) ==
    IF existingAsset # NoRow /\ existingAsset.status = "ready"
    THEN Done(call, Ok(existingAsset))
    ELSE CheckExpiry(call)

\* ticket.used: re-read the asset, answer with it when it is already ready
FinalizeReplay(r) ==
    /\ At(r, "fin_replay")
    /\ LET existingAsset == Single(AssetById(req[r].assetId)).data
       IN  req' = [req EXCEPT ![r] = ReplayAnswer(req[r], existingAsset)]
    /\ UNCHANGED <<asset, ticket, share, object, signedUrl, now, issued, finalized>>
    /\ UNCHANGED <<browser, validator, page, audit, offline>>

MarkUsed(t) == IF t = NoRow THEN t ELSE [t EXCEPT !.used = TRUE]

FinalizeMarkUsed(r) ==
    /\ At(r, "fin_mark")
    /\ ticket' = [ticket EXCEPT ![req[r].assetId] = MarkUsed(@)]
    /\ Goto(r, "fin_hash")
    /\ UNCHANGED <<asset, share, object, signedUrl, now, issued, finalized>>
    /\ UNCHANGED <<browser, validator, page, audit, offline>>

\* what the hash-object function can answer for a path
HashOutcomes(path) == {"throw", "notok"} \cup {o.sha256 : o \in {x \in object : x.path = path}}

HashMatches(serverSha256, clientSha256) ==
    ToLowerCase(serverSha256) = ToLowerCase(clientSha256)

FinalizeHash(r, outcome) ==
    /\ At(r, "fin_hash")
    /\ outcome \in HashOutcomes(req[r].ticket.storage_path)
    /\ req' = [req EXCEPT ![r] =
         IF outcome \in {"throw", "notok"}
         THEN [@ EXCEPT !.pc = "fin_corrupt", !.res = Err("INTEGRITY_ERROR")]
         ELSE IF ~HashMatches(outcome, @.clientSha256)
         THEN [@ EXCEPT !.pc = "fin_corrupt", !.serverSha256 = outcome,
                        !.res = [Err("INTEGRITY_ERROR") EXCEPT
                                    !.clientHash = req[r].clientSha256,
                                    !.serverHash = outcome]]
         ELSE [@ EXCEPT !.pc = "fin_commit", !.serverSha256 = outcome]]
    /\ UNCHANGED <<asset, ticket, share, object, signedUrl, now, issued, finalized>>
    /\ UNCHANGED <<browser, validator, page, audit, offline>>

\* an error path that answers without recording the failure
MarkCorruptSkipped(row) == row

\* update({status: 'corrupt'}).eq('id', assetId)
MarkCorrupt(row) == IF row = NoRow THEN row ELSE [row EXCEPT !.status = "corrupt"]

FinalizeCorrupt(r) ==
    /\ At(r, "fin_corrupt")
    /\ asset' = [asset EXCEPT ![req[r].assetId] = MarkCorrupt(@)]
    /\ Finish(r, req[r].res)
    /\ UNCHANGED <<ticket, share, object, signedUrl, now, issued, finalized>>
    /\ UNCHANGED <<browser, validator, page, audit, offline>>

\* a commit that leaves the version as it was
ReadyRowSameVersion(row, serverSha256, version) ==
    [row EXCEPT !.sha256 = serverSha256, !.status = "ready"]

\* update({sha256, status: 'ready', version: version + 1})
ReadyRow(row, serverSha256, version) ==
    [row EXCEPT !.sha256 = serverSha256, !.status = "ready", !.version = version + 1]

\* the rows .eq('id', assetId).eq('version', version) selects, after the update
FinalizeCommit(r) ==
    /\ At(r, "fin_commit")
    /\ LET matched == AssetByIdVersion(req[r].assetId, req[r].version)
           written == {ReadyRow(x, req[r].serverSha256, req[r].version) : x \in matched}
           updated == Single(written)
       IN  /\ asset' = IF matched = {} THEN asset
                       ELSE [asset EXCEPT ![req[r].assetId] = updated.data]
           /\ finalized' = IF matched = {} THEN finalized
                           ELSE finalized \cup {req[r].assetId}
           /\ Finish(r, IF updated.error THEN Err("BAD_REQUEST")
                        ELSE IF updated.data = NoRow THEN Err("VERSION_CONFLICT")
                        ELSE Ok(updated.data))
    /\ UNCHANGED <<ticket, share, object, signedUrl, now, issued>>
    /\ UNCHANGED <<browser, validator, page, audit, offline>>

\* -------------------------------------------------------- guarded mutations
\* a guarded call after the guard's read: on to the operation, or the guard's error
Guarded(call, next) ==
    LET g == withVersionGuard(call.assetId, call.version, call.user)
    IN  IF g.code = "pass" THEN [call EXCEPT !.pc = next]
        ELSE Done(call, g)

RenameAsset(r, userId, assetId, filename, version) ==
    /\ Free(r)
    /\ LET safeFilename == sanitizeFilename(filename)
           call == [Begin(r, "renameAsset", userId, assetId, version)
                      EXCEPT !.filename = safeFilename]
       IN  req' = [req EXCEPT ![r] =
                IF safeFilename = <<>>
                THEN Done(call, Err("BAD_REQUEST"))
                ELSE Guarded(call, "rename_update")]
    /\ UNCHANGED <<asset, ticket, share, object, signedUrl, now, issued, finalized>>
    /\ UNCHANGED <<browser, validator, page, audit, offline>>

\* update({filename, version: version + 1})
RenamedRow(row, filename, version) ==
    [row EXCEPT !.filename = filename, !.version = version + 1]

RenameUpdate(r) ==
    /\ At(r, "rename_update")
    /\ LET matched == AssetByIdVersion(req[r].assetId, req[r].version)
           written == {RenamedRow(x, req[r].filename, req[r].version) : x \in matched}
           updated == Single(written)
       IN  /\ asset' = IF matched = {} THEN asset
                       ELSE [asset EXCEPT ![req[r].assetId] = updated.data]
           /\ Finish(r, IF updated.error THEN Err("BAD_REQUEST")
                        ELSE IF updated.data = NoRow THEN Err("VERSION_CONFLICT")
                        ELSE Ok(updated.data))
    /\ UNCHANGED <<ticket, share, object, signedUrl, now, issued, finalized>>
    /\ UNCHANGED <<browser, validator, page, audit, offline>>

\* rpc get_user_by_email
Emails == {"bob@example.com", "nobody@example.com"}
UsersByEmail(email) ==
    CASE email = "bob@example.com" -> {"bob"}
      [] email = "carol@example.com" -> {"carol"}
      [] OTHER -> {}

ShareAsset(r, userId, assetId, toEmail, canDownload, version) ==
    /\ Free(r)
    /\ LET users == UsersByEmail(toEmail)
           call == [Begin(r, "shareAsset", userId, assetId, version)
                      EXCEPT !.canDownload = canDownload]
       IN  req' = [req EXCEPT ![r] =
                IF users = {}
                THEN Done(call, Err("NOT_FOUND"))
                ELSE Guarded([call EXCEPT !.toUser = CHOOSE u \in users : TRUE],
                             "share_upsert")]
    /\ UNCHANGED <<asset, ticket, share, object, signedUrl, now, issued, finalized>>
    /\ UNCHANGED <<browser, validator, page, audit, offline>>

\* an insert that ignores the conflict target
UpsertAppend(rows, row) == rows \cup {row}

\* upsert(..., {onConflict: 'asset_id,to_user'})
Upsert(rows, row) ==
    {x \in rows : ~(x.asset_id = row.asset_id /\ x.to_user = row.to_user)} \cup {row}

ShareUpsert(r) ==
    /\ At(r, "share_upsert")
    /\ share' = Upsert(share, [asset_id |-> req[r].assetId, to_user |-> req[r].toUser,
                               can_download |-> req[r].canDownload])
    /\ Goto(r, "fetch")
    /\ UNCHANGED <<asset, ticket, object, signedUrl, now, issued, finalized>>
    /\ UNCHANGED <<browser, validator, page, audit, offline>>

RevokeShare(r, userId, assetId, toEmail, version) ==
    /\ Free(r)
    /\ LET users == UsersByEmail(toEmail)
           call == Begin(r, "revokeShare", userId, assetId, version)
       IN  req' = [req EXCEPT ![r] =
                IF users = {}
                THEN Done(call, Err("NOT_FOUND"))
                ELSE Guarded([call EXCEPT !.toUser = CHOOSE u \in users : TRUE],
                             "revoke_delete")]
    /\ UNCHANGED <<asset, ticket, share, object, signedUrl, now, issued, finalized>>
    /\ UNCHANGED <<browser, validator, page, audit, offline>>

RevokeDelete(r) ==
    /\ At(r, "revoke_delete")
    /\ share' = {x \in share :
                   ~(x.asset_id = req[r].assetId /\ x.to_user = req[r].toUser)}
    /\ Goto(r, "fetch")
    /\ UNCHANGED <<asset, ticket, object, signedUrl, now, issued, finalized>>
    /\ UNCHANGED <<browser, validator, page, audit, offline>>

\* shareAsset and revokeShare answer with the asset as it is read afterwards
FetchAsset(r) ==
    /\ At(r, "fetch")
    /\ LET row == Single(AssetById(req[r].assetId)).data
       IN  Finish(r, IF row = NoRow THEN Err("NOT_FOUND") ELSE Ok(row))
    /\ UNCHANGED <<asset, ticket, share, object, signedUrl, now, issued, finalized>>
    /\ UNCHANGED <<browser, validator, page, audit, offline>>

DeleteAsset(r, userId, assetId, version) ==
    /\ Free(r)
    /\ req' = [req EXCEPT ![r] =
         Guarded(Begin(r, "deleteAsset", userId, assetId, version), "delete_path")]
    /\ UNCHANGED <<asset, ticket, share, object, signedUrl, now, issued, finalized>>
    /\ UNCHANGED <<browser, validator, page, audit, offline>>

\* the operation's own read of storage_path
DeleteReadPath(r) ==
    /\ At(r, "delete_path")
    /\ LET row == Single(AssetById(req[r].assetId)).data
       IN  req' = [req EXCEPT ![r] =
                IF row # NoRow
                THEN [@ EXCEPT !.pc = "delete_storage", !.path = row.storage_path]
                ELSE [@ EXCEPT !.pc = "delete_row"]]
    /\ UNCHANGED <<asset, ticket, share, object, signedUrl, now, issued, finalized>>
    /\ UNCHANGED <<browser, validator, page, audit, offline>>

\* a storage removal whose failure ends the request
DeleteStorageOrThrow(r, removed) ==
    /\ At(r, "delete_storage")
    /\ object' = IF removed THEN {o \in object : o.path # req[r].path} ELSE object
    /\ IF removed THEN Goto(r, "delete_row") ELSE Finish(r, Err("BAD_REQUEST"))
    /\ UNCHANGED <<asset, ticket, share, signedUrl, now, issued, finalized>>
    /\ UNCHANGED <<browser, validator, page, audit, offline>>

\* storage.remove; a storageError is logged and ignored
DeleteStorage(r, removed) ==
    /\ At(r, "delete_storage")
    /\ object' = IF removed THEN {o \in object : o.path # req[r].path} ELSE object
    /\ Goto(r, "delete_row")
    /\ UNCHANGED <<asset, ticket, share, signedUrl, now, issued, finalized>>
    /\ UNCHANGED <<browser, validator, page, audit, offline>>

\* delete().eq('id', assetId).eq('version', version): no row selected, no error
DeleteRow(r) ==
    /\ At(r, "delete_row")
    /\ asset' = IF AssetByIdVersion(req[r].assetId, req[r].version) = {} THEN asset
                ELSE [asset EXCEPT ![req[r].assetId] = NoRow]
    /\ Finish(r, Ok(NoRow))
    /\ UNCHANGED <<ticket, share, object, signedUrl, now, issued, finalized>>
    /\ UNCHANGED <<browser, validator, page, audit, offline>>

\* ----------------------------------------------------------- getDownloadUrl
DOWNLOAD_LINK_TTL == 90

\* a shared-asset read that does not ask for can_download
SharedWithAnyShare(id, userId) ==
    {x \in AssetById(id) :
       \E s \in share : s.asset_id = id /\ s.to_user = userId}

\* asset joined with asset_share!inner, .eq(to_user).eq(can_download, true)
SharedWith(id, userId) ==
    {x \in AssetById(id) :
       \E s \in share : s.asset_id = id /\ s.to_user = userId /\ s.can_download}

\* if (finalAsset.status !== "ready") throw; else on to the signed URL
CheckReady(call, finalAsset) ==
    IF finalAsset.status # "ready" THEN Done(call, Err("BAD_REQUEST"))
    ELSE [call EXCEPT !.pc = "dl_sign", !.path = finalAsset.storage_path]

\* the read .eq("id", assetId).eq("owner_id", user.id).single()
GetDownloadUrl(r, userId, assetId) ==
    /\ Free(r)
    /\ LET call == Begin(r, "getDownloadUrl", userId, assetId, 0)
           owned == Single({x \in AssetById(assetId) : x.owner_id = userId})
       IN  req' = [req EXCEPT ![r] =
                IF owned.error \/ owned.data = NoRow
                THEN [call EXCEPT !.pc = "dl_shared"]
                ELSE CheckReady(call, owned.data)]
    /\ UNCHANGED <<asset, ticket, share, object, signedUrl, now, issued, finalized>>
    /\ UNCHANGED <<browser, validator, page, audit, offline>>

\* not the owner: the asset is read again through the caller's share
DownloadShared(r) ==
    /\ At(r, "dl_shared")
    /\ LET shared == Single(SharedWith(req[r].assetId, req[r].user))
       IN  req' = [req EXCEPT ![r] =
                IF shared.error \/ shared.data = NoRow
                THEN Done(req[r], Err("FORBIDDEN"))
                ELSE CheckReady(req[r], shared.data)]
    /\ UNCHANGED <<asset, ticket, share, object, signedUrl, now, issued, finalized>>
    /\ UNCHANGED <<browser, validator, page, audit, offline>>

\* storage.createSignedUrl(storage_path, DOWNLOAD_LINK_TTL)
DownloadSign(r, signed) ==
    /\ At(r, "dl_sign")
    /\ req' = [req EXCEPT ![r] =
          IF signed THEN [@ EXCEPT !.pc = "dl_audit"]
          ELSE Done(@, Err("BAD_REQUEST"))]
    /\ UNCHANGED <<asset, ticket, share, object, signedUrl, now, issued, finalized>>
    /\ UNCHANGED <<browser, validator, page, audit, offline>>

\* the download_audit insert, then the answer
DownloadAudit(r) ==
    /\ At(r, "dl_audit")
    /\ download_audit' = download_audit \cup
          {[asset_id |-> req[r].assetId, user_id |-> req[r].user]}
    /\ Finish(r, Ok([url |-> req[r].path, expiresAt |-> now + DOWNLOAD_LINK_TTL]))
    /\ UNCHANGED <<asset, ticket, share, object, signedUrl, now, issued, finalized>>
    /\ UNCHANGED <<browser, validator, page, offline>>

\* ----------------------------------------------------------------- myAssets
Null == <<>>

\* Buffer.from(created_at).toString("base64") and its decoding
Base64(text) == <<"base64", text>>
FromBase64(cursor) == cursor[2]

\* ilike("filename", "%q%"): the pattern occurs in the name, whatever the case
ILike(filename, q) ==
    \E i \in 0..(Len(filename) - Len(q)) :
       \A k \in 1..Len(q) : ToLowerCase(filename[i + k]) = ToLowerCase(q[k])

\* a cursor filter that lets the cursor's own row through again
AtOrBefore(row, after) ==
    after = Null \/ row.created_at <= FromBase64(after)

\* if (after) query.lt("created_at", decodedCursor)
Before(row, after) ==
    after = Null \/ row.created_at < FromBase64(after)

\* order("created_at", {ascending: false})
RECURSIVE OrderDescending(_)
OrderDescending(rows) ==
    IF rows = {} THEN <<>>
    ELSE LET newest == CHOOSE x \in rows : \A y \in rows : y.created_at <= x.created_at
         IN  <<newest>> \o OrderDescending(rows \ {newest})

\* limit(n) and slice(0, n)
Take(rows, n) == SubSeq(rows, 1, IF Len(rows) < n THEN Len(rows) ELSE n)

myAssets(rows, userId, after, first, q) ==
    LET selected == {x \in rows : /\ x.owner_id = userId
                                  /\ (Trim(q) = <<>> \/ ILike(x.filename, Trim(q)))
                                  /\ Before(x, after)}
        assets == Take(OrderDescending(selected), first + 1)
        items == Take(assets, first)
        edges == [i \in 1..Len(items) |->
                    [cursor |-> Base64(items[i].created_at),
                     node |-> [id |-> items[i].id, filename |-> items[i].filename,
                               createdAt |-> items[i].created_at]]]
    IN  [edges |-> edges,
         pageInfo |-> [endCursor |-> IF Len(edges) > 0 THEN edges[Len(edges)].cursor
                                     ELSE Null,
                       hasNextPage |-> Len(assets) > first]]

\* ------------------------------------------------------------ UploadManager
Files == {"photo", "scan"}
UploadIds == {"u1"}

\* computeFileSHA256: the digest of the file's bytes in lower-case hex
computeFileSHA256(file) == IF file = "photo" THEN "abc123" ELSE "def456"

\* Map.set and Map.delete on the map from key to AbortController
MapDelete(map, key) == {e \in map : e.key # key}
MapSet(map, key, controller) ==
    MapDelete(map, key) \cup {[key |-> key, controller |-> controller]}

\* the payload updateProgress hands to onProgress: always under uploadId
Progress(uploadId, state, error) ==
    [assetId |-> uploadId, state |-> state, error |-> error]

\* onProgress: the report reaches the sink, and the page keeps the latest per id
Sink(reports) ==
    /\ sink' = sink \o reports
    /\ cards' = {c \in cards : c.assetId # reports[Len(reports)].assetId}
                   \cup {reports[Len(reports)]}

Request(by, op, file, assetId, clientSha256, version) ==
    [by |-> by, op |-> op, file |-> file, assetId |-> assetId,
     clientSha256 |-> clientSha256, version |-> version]

\* the message the catch block reports for a thrown error
CatchMessage(name, message) == IF name = "AbortError" THEN "Upload cancelled" ELSE message

\* a catch block that rethrows without a report
CatchSilently(name, message) ==
    /\ run' = [run EXCEPT !.pc = "thrown"]
    /\ UNCHANGED <<sink, cards>>

\* the catch block of uploadFile
Catch(name, message) ==
    /\ Sink(<<Progress(run.uploadId, "error", CatchMessage(name, message))>>)
    /\ run' = [run EXCEPT !.pc = "thrown"]

\* a new controller under a fresh uploadId, and the first report
UploadFile(file, simulateFlaky) ==
    /\ run.pc = "idle"
    /\ \E uploadId \in UploadIds :
         /\ run' = [NoRun EXCEPT !.pc = "auth", !.file = file,
                                 !.simulateFlaky = simulateFlaky, !.uploadId = uploadId]
         /\ uploads' = MapSet(uploads, uploadId, "uploadFile")
         /\ Sink(<<Progress(uploadId, "requesting_ticket", "")>>)
    /\ UNCHANGED <<retry, sent>>
    /\ UNCHANGED <<server, validator, page, audit, offline>>

\* getAuthToken answers; with a token the createUploadUrl request is fetched,
\* which an already aborted signal rejects at once
GetAuthToken(token) ==
    /\ run.pc = "auth"
    /\ IF ~token THEN Catch("Error", "Not authenticated") /\ UNCHANGED sent
       ELSE IF run.aborted THEN Catch("AbortError", "") /\ UNCHANGED sent
       ELSE /\ run' = [run EXCEPT !.pc = "ticket"]
            /\ sent' = Append(sent, Request("uploadFile", "createUploadUrl", run.file, "", "", 0))
            /\ UNCHANGED <<sink, cards>>
    /\ UNCHANGED <<uploads, retry>>
    /\ UNCHANGED <<server, validator, page, audit, offline>>

TicketAnswers == {"failed", "errors"} \cup AssetIds

\* the createUploadUrl response: the map is re-keyed to the assetId of the ticket
TicketResponse(answer) ==
    /\ run.pc = "ticket"
    /\ IF run.aborted THEN Catch("AbortError", "") /\ UNCHANGED uploads
       ELSE IF answer = "failed" THEN Catch("TypeError", "Failed to fetch") /\ UNCHANGED uploads
       ELSE IF answer = "errors" THEN Catch("Error", "BAD_REQUEST") /\ UNCHANGED uploads
       ELSE /\ uploads' = MapSet(MapDelete(uploads, run.uploadId), answer, "uploadFile")
            /\ Sink(<<Progress(run.uploadId, "uploading", "")>>)
            /\ run' = [run EXCEPT !.pc = "hash", !.assetId = answer]
    /\ UNCHANGED <<retry, sent>>
    /\ UNCHANGED <<server, validator, page, audit, offline>>

\* the digest is computed, then uploadWithProgress opens and sends the XHR; the
\* abort listener it adds to the signal never runs for a signal aborted before
HashFile ==
    /\ run.pc = "hash"
    /\ run' = [run EXCEPT !.pc = "transfer", !.clientSha256 = computeFileSHA256(run.file)]
    /\ sent' = Append(sent, Request("uploadFile", "PUT", run.file, run.assetId, "", 0))
    /\ UNCHANGED <<uploads, retry, sink, cards>>
    /\ UNCHANGED <<server, validator, page, audit, offline>>

\* a progress event whose simulated failure is reported but does not end the run
XhrProgressFailsOn(fail) ==
    /\ run.pc = "transfer" /\ ~run.xhrAborted
    /\ run.events < MaxProgress
    /\ fail => run.simulateFlaky
    /\ Sink(<<Progress(run.uploadId, IF fail THEN "error" ELSE "uploading",
                       IF fail THEN "Simulated network failure" ELSE "")>>)
    /\ run' = [run EXCEPT !.events = @ + 1]
    /\ UNCHANGED <<uploads, retry, sent>>
    /\ UNCHANGED <<server, validator, page, audit, offline>>

\* a progress event of the XHR; with simulateFlaky it may abort the transfer
XhrProgress(fail) ==
    /\ run.pc = "transfer" /\ ~run.xhrAborted
    /\ run.events < MaxProgress
    /\ fail => run.simulateFlaky
    /\ IF fail THEN Catch("Error", "Simulated network failure")
       ELSE /\ Sink(<<Progress(run.uploadId, "uploading", "")>>)
            /\ run' = [run EXCEPT !.events = @ + 1]
    /\ UNCHANGED <<uploads, retry, sent>>
    /\ UNCHANGED <<server, validator, page, audit, offline>>

XhrOutcomes == {"load", "status", "error"}

\* the XHR ends; after a 2xx load verifying is reported and finalizeUpload fetched
XhrEnd(outcome) ==
    /\ run.pc = "transfer" /\ ~run.xhrAborted
    /\ IF outcome = "status" THEN Catch("Error", "Upload failed with status") /\ UNCHANGED sent
       ELSE IF outcome = "error" THEN Catch("Error", "Upload failed") /\ UNCHANGED sent
       ELSE IF run.aborted
       THEN /\ Sink(<<Progress(run.uploadId, "verifying", ""),
                      Progress(run.uploadId, "error", CatchMessage("AbortError", ""))>>)
            /\ run' = [run EXCEPT !.pc = "thrown"]
            /\ UNCHANGED sent
       ELSE /\ Sink(<<Progress(run.uploadId, "verifying", "")>>)
            /\ run' = [run EXCEPT !.pc = "finalize"]
            /\ sent' = Append(sent, Request("uploadFile", "finalizeUpload", run.file,
                                            run.assetId, run.clientSha256, 1))
    /\ UNCHANGED <<uploads, retry>>
    /\ UNCHANGED <<server, validator, page, audit, offline>>

\* the abort event of an XHR aborted through the signal
XhrAbort ==
    /\ run.pc = "transfer" /\ run.xhrAborted
    /\ Catch("Error", "Upload aborted")
    /\ UNCHANGED <<uploads, retry, sent>>
    /\ UNCHANGED <<server, validator, page, audit, offline>>

FinalizeErrors == {"INTEGRITY_ERROR", "BAD_REQUEST"}
FinalizeAnswers == {"failed", "ready"} \cup FinalizeErrors

\* a response handler that announces verifying once more before the outcome
FinalizeReportTwice(answer) ==
    <<Progress(run.uploadId, "verifying", ""), Progress(run.uploadId, answer, "")>>

\* what the finalizeUpload response makes uploadFile report before it returns
FinalizeReport(answer) ==
    IF answer = "INTEGRITY_ERROR"
    THEN <<Progress(run.uploadId, "corrupt", answer)>>
    ELSE <<Progress(run.uploadId, answer, "")>>

\* a response handler that leaves the controller in the map after a success
FinalizeResponseKeepsController(answer) ==
    /\ run.pc = "finalize"
    /\ IF run.aborted THEN Catch("AbortError", "")
       ELSE IF answer = "failed" THEN Catch("TypeError", "Failed to fetch")
       ELSE IF answer \in FinalizeErrors \ {"INTEGRITY_ERROR"}
       THEN Catch("Error", answer)
       ELSE /\ Sink(FinalizeReport(answer))
            /\ run' = [run EXCEPT !.pc = "returned"]
    /\ UNCHANGED <<uploads, retry, sent>>
    /\ UNCHANGED <<server, validator, page, audit, offline>>

FinalizeResponse(answer) ==
    /\ run.pc = "finalize"
    /\ IF run.aborted THEN Catch("AbortError", "") /\ UNCHANGED uploads
       ELSE IF answer = "failed" THEN Catch("TypeError", "Failed to fetch") /\ UNCHANGED uploads
       ELSE IF answer \in FinalizeErrors \ {"INTEGRITY_ERROR"}
       THEN Catch("Error", answer) /\ UNCHANGED uploads
       ELSE /\ Sink(FinalizeReport(answer))
            /\ run' = [run EXCEPT !.pc = "returned"]
            /\ uploads' = IF answer = "INTEGRITY_ERROR" THEN uploads
                          ELSE MapDelete(uploads, run.assetId)
    /\ UNCHANGED <<retry, sent>>
    /\ UNCHANGED <<server, validator, page, audit, offline>>

\* controller.abort() of the controller found under the key, and its removal
cancelUpload(assetId) ==
    IF \E e \in uploads : e.key = assetId
    THEN /\ run' = [run EXCEPT !.aborted = TRUE,
                               !.xhrAborted = @ \/ (run.pc = "transfer" /\ ~run.aborted)]
         /\ uploads' = MapDelete(uploads, assetId)
    ELSE UNCHANGED <<run, uploads>>

\* a caller of the manager cancels under a key of its choice
CancelUpload(assetId) ==
    /\ cancelUpload(assetId)
    /\ UNCHANGED <<retry, sink, cards, sent>>
    /\ UNCHANGED <<server, validator, page, audit, offline>>

\* the Cancel button of an upload card: the card's id is the reported assetId
HandleCancel(assetId) ==
    /\ \E c \in cards : c.assetId = assetId
    /\ cancelUpload(assetId)
    /\ cards' = {c \in cards : c.assetId # assetId}
    /\ UNCHANGED <<retry, sink, sent>>
    /\ UNCHANGED <<server, validator, page, audit, offline>>

\* ------------------------------------------------------------- retryUpload
RetryUpload(assetId, file) ==
    /\ retry.pc = "idle"
    /\ retry' = [NoRetry EXCEPT !.pc = "auth", !.assetId = assetId, !.file = file]
    /\ UNCHANGED <<uploads, run, sink, cards, sent>>
    /\ UNCHANGED <<server, validator, page, audit, offline>>

RetryAuth(token) ==
    /\ retry.pc = "auth"
    /\ retry' = [retry EXCEPT !.pc = IF token THEN "hash" ELSE "thrown"]
    /\ UNCHANGED <<uploads, run, sink, cards, sent>>
    /\ UNCHANGED <<server, validator, page, audit, offline>>

\* a retry that transfers the bytes again before it finalizes
RetryRequestsWithTransfer(assetId, file) ==
    <<Request("retryUpload", "PUT", file, assetId, "", 0),
      Request("retryUpload", "finalizeUpload", file, assetId, computeFileSHA256(file), 1)>>

\* what retryUpload puts on the network: finalizeUpload with version 1
RetryRequests(assetId, file) ==
    <<Request("retryUpload", "finalizeUpload", file, assetId, computeFileSHA256(file), 1)>>

\* the digest is computed again from the file, then finalizeUpload is fetched
RetryHash ==
    /\ retry.pc = "hash"
    /\ retry' = [retry EXCEPT !.pc = "finalize",
                              !.clientSha256 = computeFileSHA256(retry.file)]
    /\ sent' = sent \o RetryRequests(retry.assetId, retry.file)
    /\ UNCHANGED <<uploads, run, sink, cards>>
    /\ UNCHANGED <<server, validator, page, audit, offline>>

RetryResponse(answer) ==
    /\ retry.pc = "finalize"
    /\ retry' = [retry EXCEPT !.pc = IF answer = "ready" THEN "returned" ELSE "thrown"]
    /\ UNCHANGED <<uploads, run, sink, cards, sent>>
    /\ UNCHANGED <<server, validator, page, audit, offline>>

\* ------------------------------------------------------------ OfflineQueue
\* the head of the while loop with the queue q: shift the first task and await
\* it, or leave the loop and clear the flag; others are the tasks awaited elsewhere
Loop(q, others) ==
    IF q # <<>> /\ onLine
    THEN /\ queue' = Tail(q)
         /\ running' = others \cup {Head(q)}
         /\ processing' = TRUE
    ELSE /\ queue' = q
         /\ running' = others
         /\ processing' = FALSE

\* a processQueue that starts a loop whatever the flag says
processQueueUnguarded(q) ==
    IF q = <<>> THEN queue' = q /\ UNCHANGED <<running, processing>>
    ELSE Loop(q, running)

\* if (this.processing || this.queue.length === 0) return; else the loop
processQueue(q) ==
    IF processing \/ q = <<>> THEN queue' = q /\ UNCHANGED <<running, processing>>
    ELSE Loop(q, running)

\* add(task): push, and processQueue when the browser is online; tasks are
\* numbered in the order they are added
Add ==
    /\ added < MaxTasks
    /\ added' = added + 1
    /\ IF onLine THEN processQueue(Append(queue, added + 1))
       ELSE queue' = Append(queue, added + 1) /\ UNCHANGED <<running, processing>>
    /\ UNCHANGED <<onLine, pending, settled>>
    /\ UNCHANGED <<server, browser, validator, page, audit>>

\* the connection comes back: navigator.onLine is true and an online event is due
GoOnline ==
    /\ ~onLine
    /\ onLine' = TRUE
    /\ pending' = TRUE
    /\ UNCHANGED <<queue, processing, running, added, settled>>
    /\ UNCHANGED <<server, browser, validator, page, audit>>

GoOffline ==
    /\ onLine
    /\ onLine' = FALSE
    /\ UNCHANGED <<queue, processing, pending, running, added, settled>>
    /\ UNCHANGED <<server, browser, validator, page, audit>>

\* the listener of the online event
OnlineEvent ==
    /\ pending
    /\ pending' = FALSE
    /\ processQueue(queue)
    /\ UNCHANGED <<onLine, added, settled>>
    /\ UNCHANGED <<server, browser, validator, page, audit>>

\* a catch block that never puts the task back
RequeuesNever(ok) == FALSE

\* catch: if (!navigator.onLine) unshift and break
Requeues(ok) == ~ok /\ ~onLine

\* the awaited task resolves or rejects and the loop that awaited it goes on
TaskSettles(t, ok) ==
    /\ t \in running
    /\ settled' = settled \cup {[task |-> t, ok |-> ok, online |-> onLine]}
    /\ IF Requeues(ok)
       THEN /\ queue' = <<t>> \o queue
            /\ running' = running \ {t}
            /\ processing' = FALSE
       ELSE Loop(queue, running \ {t})
    /\ UNCHANGED <<onLine, pending, added>>
    /\ UNCHANGED <<server, browser, validator, page, audit>>

\* ---------------------------------------------------- the page's rename
\* error messages are sequences of words; the words of the messages that the
\* errors of renameAsset carry (context.ts 31, 37, 43; mutation.ts 308, 314;
\* validation 40, 74), by extensions.code
RenameMessages(res) ==
    CASE res.code = "NOT_FOUND" -> {<<"Asset", "not", "found">>}
      [] res.code = "FORBIDDEN" ->
           {<<"Not", "authorized", "to", "modify", "this", "asset">>}
      [] res.code = "VERSION_CONFLICT" ->
           IF res.currentVersion # 0
           THEN {<<"Version", "conflict", "-", "asset", "was", "modified", "by",
                   "another", "client">>}
           ELSE {<<"Version", "conflict", "during", "rename">>}
      [] res.code = "BAD_REQUEST" ->
           {<<"Failed", "to", "rename", "asset">>, <<"Invalid", "filename">>}
      [] OTHER -> {<<>>}

\* graphqlRequest: the data, or an Error made of errors[0].message alone
graphqlRequest(res, message) ==
    IF res.code = "ok"
    THEN [thrown |-> FALSE, message |-> <<>>, data |-> res.data]
    ELSE [thrown |-> TRUE, message |-> message, data |-> NoRow]

\* String.includes for a needle that is one word
Includes(message, word) == \E i \in 1..Len(message) : message[i] = word

\* the branch of the catch block in the card's handleRename
RenameAlert(error) ==
    IF Includes(error.message, "VERSION_CONFLICT") THEN "conflict" ELSE "failure"

\* the answer to the renameAsset request of an asset card reaches its handler
HandleRename(r) ==
    /\ At(r, "done")
    /\ req[r].op = "renameAsset"
    /\ \E message \in RenameMessages(req[r].res) :
         LET answer == graphqlRequest(req[r].res, message)
         IN  alert' = IF answer.thrown THEN RenameAlert(answer) ELSE alert
    /\ req' = [req EXCEPT ![r] = Idle]
    /\ UNCHANGED <<asset, ticket, share, object, signedUrl, now, issued, finalized>>
    /\ UNCHANGED <<browser, validator, audit, offline>>

\* ----------------------------------------------------------- specifications
Creates(names, owners, mimes, sizes, outcomes) ==
    \/ \E r \in Slots, u \in owners, f \in names, m \in mimes, z \in sizes,
          ok \in outcomes : CreateUploadUrl(r, u, f, m, z, ok)
    \/ \E r \in Slots, ok \in outcomes : CreateTicket(r, ok)
    \/ \E r \in Slots, ok \in outcomes : CreateSignedUrl(r, ok)

Uploads ==
    \E p \in signedUrl, d \in ServerDigests : PutObject(p, d)

Finalizes ==
    \/ \E r \in Slots, u \in Users, a \in AssetIds, d \in ClientDigests,
          v \in 1..(MaxVersion - 1) : FinalizeUpload(r, u, a, d, v)
    \/ \E r \in Slots : FinalizeReplay(r)
    \/ \E r \in Slots : FinalizeMarkUsed(r)
    \/ \E r \in Slots, o \in {"throw", "notok"} \cup ServerDigests : FinalizeHash(r, o)
    \/ \E r \in Slots : FinalizeCorrupt(r)
    \/ \E r \in Slots : FinalizeCommit(r)

Renames ==
    \/ \E r \in Slots, u \in Users, a \in AssetIds, f \in RenameNames,
          v \in 1..(MaxVersion - 1) : RenameAsset(r, u, a, f, v)
    \/ \E r \in Slots : RenameUpdate(r)

Shares ==
    \/ \E r \in Slots, u \in Users, a \in AssetIds, e \in Emails, c \in BOOLEAN,
          v \in Versions : ShareAsset(r, u, a, e, c, v)
    \/ \E r \in Slots : ShareUpsert(r)
    \/ \E r \in Slots, u \in Users, a \in AssetIds, e \in Emails,
          v \in Versions : RevokeShare(r, u, a, e, v)
    \/ \E r \in Slots : RevokeDelete(r)
    \/ \E r \in Slots : FetchAsset(r)

\* the owner sharing with two accounts and revoking, at the version of the row
ShareEmails == {"bob@example.com", "carol@example.com"}

SharesAmong ==
    \/ \E r \in Slots, a \in AssetIds, e \in ShareEmails, c \in BOOLEAN :
          ShareAsset(r, "alice", a, e, c, 1)
    \/ \E r \in Slots : ShareUpsert(r)
    \/ \E r \in Slots, a \in AssetIds, e \in ShareEmails : RevokeShare(r, "alice", a, e, 1)
    \/ \E r \in Slots : RevokeDelete(r)
    \/ \E r \in Slots : FetchAsset(r)

Deletes ==
    \/ \E r \in Slots, u \in Users, a \in AssetIds, v \in Versions : DeleteAsset(r, u, a, v)
    \/ \E r \in Slots : DeleteReadPath(r)
    \/ \E r \in Slots, ok \in BOOLEAN : DeleteStorage(r, ok)
    \/ \E r \in Slots : DeleteRow(r)

Responds == \E r \in Slots : Respond(r)

Clock == \E t \in 1..(UPLOAD_TICKET_TTL + 1) : Tick(t)

\* the whole API, with the clock and with inserts that fail
Next ==
    \/ Creates(CreateNames, Users, Mimes, Sizes, BOOLEAN)
    \/ Uploads
    \/ Clock
    \/ Finalizes
    \/ Renames
    \/ Shares
    \/ Deletes
    \/ Responds

Spec == Init /\ [][Next]_vars

\* the version-guarded mutations racing on an asset, whatever its status
NextGuard ==
    \/ Creates(ValidNames, {"alice"}, {"image/jpeg"}, {1024}, {TRUE})
    \/ Renames
    \/ Shares
    \/ Deletes
    \/ Responds

SpecGuard == Init /\ [][NextGuard]_vars

\* the finalize protocol racing with itself, with renames and with deletes,
\* while the ticket runs out
NextFinalize ==
    \/ Clock
    \/ Creates(ValidNames, {"alice"}, {"image/jpeg"}, {1024}, {TRUE})
    \/ Uploads
    \/ Finalizes
    \/ Renames
    \/ Deletes
    \/ Responds

SpecFinalize == Init /\ [][NextFinalize]_vars

\* the owner finalizing with the version of the draft
FinalizesByOwner ==
    \/ \E r \in Slots, a \in AssetIds, d \in ClientDigests :
          FinalizeUpload(r, "alice", a, d, 1)
    \/ \E r \in Slots : FinalizeReplay(r)
    \/ \E r \in Slots : FinalizeMarkUsed(r)
    \/ \E r \in Slots, o \in {"throw", "notok"} \cup ServerDigests : FinalizeHash(r, o)
    \/ \E r \in Slots : FinalizeCorrupt(r)
    \/ \E r \in Slots : FinalizeCommit(r)

\* the owner sharing with bob and revoking, at the version of the ready row
SharesWithBob ==
    \/ \E r \in Slots, a \in AssetIds, c \in BOOLEAN :
          ShareAsset(r, "alice", a, "bob@example.com", c, 2)
    \/ \E r \in Slots : ShareUpsert(r)
    \/ \E r \in Slots, a \in AssetIds : RevokeShare(r, "alice", a, "bob@example.com", 2)
    \/ \E r \in Slots : RevokeDelete(r)
    \/ \E r \in Slots : FetchAsset(r)

Downloads ==
    \/ \E r \in Slots, u \in Users, a \in AssetIds : GetDownloadUrl(r, u, a)
    \/ \E r \in Slots : DownloadShared(r)
    \/ \E r \in Slots, signed \in BOOLEAN : DownloadSign(r, signed)
    \/ \E r \in Slots : DownloadAudit(r)

\* downloads by the owner and by bob while the asset is finalized, shared, revoked
NextDownload ==
    \/ Creates(ValidNames, {"alice"}, {"image/jpeg"}, {1024}, {TRUE})
    \/ Uploads
    \/ FinalizesByOwner
    \/ SharesWithBob
    \/ Downloads
    \/ Responds

SpecDownload == Init /\ [][NextDownload]_vars

\* sharing and revoking among several accounts
NextShare ==
    \/ Creates(ValidNames, {"alice"}, {"image/jpeg"}, {1024}, {TRUE})
    \/ SharesAmong
    \/ Responds

SpecShare == Init /\ [][NextShare]_vars

\* deleteAsset requests of users who created no asset; the guard stops them
DeletesByOthers ==
    \E r \in Slots, u \in Users \ {"alice"}, a \in AssetIds, v \in Versions :
       DeleteAsset(r, u, a, v)

\* alice's asset through its life (created, uploaded, finalized, renamed, shared)
\* while bob sends every mutation against it; alice's own deletes are left out,
\* as they only take away the row whose owner the requests are compared with
NextOwner ==
    \/ Creates(ValidNames, {"alice"}, {"image/jpeg"}, {1024}, {TRUE})
    \/ Uploads
    \/ Finalizes
    \/ Renames
    \/ Shares
    \/ DeletesByOthers
    \/ Responds

SpecOwner == Init /\ [][NextOwner]_vars

UploadFiles ==
    \/ \E f \in Files, k \in BOOLEAN : UploadFile(f, k)
    \/ \E t \in BOOLEAN : GetAuthToken(t)
    \/ \E a \in TicketAnswers : TicketResponse(a)
    \/ HashFile
    \/ \E k \in BOOLEAN : XhrProgress(k)
    \/ \E o \in XhrOutcomes : XhrEnd(o)
    \/ XhrAbort
    \/ \E a \in FinalizeAnswers : FinalizeResponse(a)

Cancels ==
    \/ \E id \in UploadIds \cup AssetIds : CancelUpload(id)
    \/ \E id \in UploadIds \cup AssetIds : HandleCancel(id)

Retries ==
    \/ \E a \in AssetIds, f \in Files : RetryUpload(a, f)
    \/ \E t \in BOOLEAN : RetryAuth(t)
    \/ RetryHash
    \/ \E a \in FinalizeAnswers : RetryResponse(a)

\* one upload and one retry in the browser, against whatever the network answers
NextBrowser ==
    \/ UploadFiles
    \/ Cancels
    \/ Retries

SpecBrowser == Init /\ [][NextBrowser]_vars

\* ------------------------------------------------- the validators by themselves
\* sizes around zero, around the maximum, and the ends of a GraphQL Int
SizeInputs ==
    (-SizeMargin..SizeMargin)
       \cup ((MAX_FILE_SIZE - SizeMargin)..(MAX_FILE_SIZE + SizeMargin))
       \cup {-2147483647, 2147483647}

InitSize ==
    /\ ServerInit
    /\ BrowserInit
    /\ arg \in SizeInputs
    /\ ret = NoRet

\* validateFileSize(arg) returns, or throws BAD_REQUEST
ValidateFileSize ==
    /\ ret = NoRet
    /\ ret' = [code |-> IF validateFileSize(arg) THEN "ok" ELSE "BAD_REQUEST"]
    /\ UNCHANGED <<server, browser, arg, page, audit, offline>>

SpecSize == InitSize /\ [][ValidateFileSize]_vars

\* every name of up to MaxInputLength characters over dots, separators and a letter
NameChars == {"a", ".", "/", "\\"}
NameInputs == UNION {[1..n -> NameChars] : n \in 0..MaxInputLength}

InitName ==
    /\ ServerInit
    /\ BrowserInit
    /\ arg \in NameInputs
    /\ ret = NoRet

\* sanitizeFilename(arg) returns the safe name, or throws BAD_REQUEST
SanitizeFilename ==
    /\ ret = NoRet
    /\ ret' = IF sanitizeFilename(arg) = <<>> THEN [code |-> "BAD_REQUEST"]
               ELSE [code |-> "ok", value |-> sanitizeFilename(arg)]
    /\ UNCHANGED <<server, browser, arg, page, audit, offline>>

SpecName == InitName /\ [][SanitizeFilename]_vars

\* asset tables with pairwise distinct creation timestamps, a page size and a
\* search string; the caller is alice and starts without a cursor
ListNames == {<<"a">>, <<"b">>}
ListRows == [owner_id : Users, filename : ListNames] \cup {NoRow}
Tables ==
    {{[id |-> t, owner_id |-> f[t].owner_id, filename |-> f[t].filename,
       created_at |-> t] : t \in {u \in 1..MaxStamp : f[u] # NoRow}} :
       f \in [1..MaxStamp -> ListRows]}

ListInputs ==
    [rows : Tables, first : 1..MaxFirst, q : {<<>>, <<" ">>, <<"A">>}, after : {Null},
     seen : {<<>>}]

InitList ==
    /\ ServerInit
    /\ BrowserInit
    /\ arg \in ListInputs
    /\ ret = NoRet

\* one myAssets call of the client; the nodes it returns are noted in arg.seen
MyAssets ==
    /\ ret = NoRet
    /\ LET result == myAssets(arg.rows, "alice", arg.after, arg.first, arg.q)
       IN  /\ ret' = [code |-> "ok", value |-> result]
           /\ arg' = [arg EXCEPT !.seen =
                        @ \o [i \in 1..Len(result.edges) |-> result.edges[i].node.id]]
    /\ UNCHANGED <<server, browser, page, audit, offline>>

\* the client asks for the next page with after = the previous endCursor
NextPage ==
    /\ ret # NoRet
    /\ ret.value.pageInfo.hasNextPage
    /\ arg' = [arg EXCEPT !.after = ret.value.pageInfo.endCursor]
    /\ ret' = NoRet
    /\ UNCHANGED <<server, browser, page, audit, offline>>

SpecList == InitList /\ [][MyAssets \/ NextPage]_vars

\* names around the length limits: a run of letters, alone or followed by a dot
\* and an extension, each short or about as long as the limits
Repeat(c, n) == [i \in 1..n |-> c]

NearLimits == (MaxBaseLength - LongMargin)..(MaxNameLength + LongMargin)

LongInputs ==
    {Repeat("a", n) \o ext :
        n \in (0..LongMargin) \cup NearLimits,
        ext \in {<<>>} \cup {<<".">> \o Repeat("b", m) :
                                 m \in (0..LongMargin) \cup NearLimits}}

InitLong ==
    /\ ServerInit
    /\ BrowserInit
    /\ arg \in LongInputs
    /\ ret = NoRet

SpecLong == InitLong /\ [][SanitizeFilename]_vars

\* adds, connection changes, online events and tasks settling in any order
NextOffline ==
    \/ Add
    \/ GoOnline
    \/ GoOffline
    \/ OnlineEvent
    \/ \E t \in 1..MaxTasks, ok \in BOOLEAN : TaskSettles(t, ok)

SpecOffline == Init /\ [][NextOffline]_vars

\* every awaited task settles and every online event is delivered
SpecOfflineLive ==
    /\ SpecOffline
    /\ WF_vars(OnlineEvent)
    /\ WF_vars(\E t \in 1..MaxTasks, ok \in BOOLEAN : TaskSettles(t, ok))

RenameAnswers == \E r \in Slots : HandleRename(r)

\* renames sent from asset cards and from elsewhere, racing on one asset
NextRename ==
    \/ Creates(ValidNames, {"alice"}, {"image/jpeg"}, {1024}, {TRUE})
    \/ Renames
    \/ RenameAnswers
    \/ Responds

SpecRename == Init /\ [][NextRename]_vars

\* createUploadUrl calls of both users, with inserts and signing that may fail
NextCreate ==
    \/ Creates(CreateNames, Users, Mimes, Sizes, BOOLEAN)
    \/ Responds

SpecCreate == Init /\ [][NextCreate]_vars

\* requests that fail validation, among requests that pass it
NextValidate ==
    \/ Creates(CreateNames, {"alice"}, Mimes, Sizes, {TRUE})
    \/ Uploads
    \/ Renames
    \/ Responds

SpecValidate == Init /\ [][NextValidate]_vars

\* ------------------------------------------------------------------ claims
GuardedOps == {"renameAsset", "shareAsset", "revokeShare", "deleteAsset"}

\* the slot whose request takes the step
Acting(r) == req'[r] # req[r]

StoredVersionIs(assetId, version) ==
    asset[assetId] # NoRow /\ asset[assetId].version = version

\* C1: a rename update, share upsert, share delete or asset delete (row or stored
\* object) changes the store only when the asset's stored version at that moment
\* equals the expectedVersion of the request.
C1_WriteOnlyAtExpectedVersion ==
    [][\A r \in Slots :
          ( /\ Acting(r)
            /\ req[r].pc \in {"rename_update", "share_upsert", "revoke_delete",
                              "delete_storage", "delete_row"}
            /\ <<asset, share, object>>' # <<asset, share, object>> )
          => StoredVersionIs(req[r].assetId, req[r].version)]_vars

Answered(r, ops) == req[r].pc = "done" /\ req[r].op \in ops

\* C2: of two guarded mutation attempts (rename, share, revoke, delete in any mix)
\* on the same asset that carry the same expectedVersion at most one succeeds, and
\* a VERSION_CONFLICT the other one gets names the version it sent and a different
\* stored one.
C2_AtMostOneWinner ==
    \A r1, r2 \in Slots :
       ( /\ r1 # r2
         /\ Answered(r1, GuardedOps) /\ Answered(r2, GuardedOps)
         /\ req[r1].assetId = req[r2].assetId
         /\ req[r1].version = req[r2].version
         /\ req[r1].res.code = "ok" )
       => /\ req[r2].res.code # "ok"
          /\ req[r2].res.code = "VERSION_CONFLICT"
               => /\ req[r2].res.expectedVersion = req[r2].version
                  /\ req[r2].res.currentVersion > req[r2].version

\* the step in which request r runs withVersionGuard: the request arrives, its
\* filename is valid and its target user is known
GuardStep(r) ==
    /\ req[r].pc = "idle"
    /\ req'[r].op \in GuardedOps
    /\ ~(req'[r].op = "renameAsset" /\ req'[r].pc = "done"
           /\ req'[r].res.code = "BAD_REQUEST")
    /\ ~(req'[r].op \in {"shareAsset", "revokeShare"} /\ req'[r].toUser = "")

Rejected(r, code) == req'[r].pc = "done" /\ req'[r].res.code = code

\* C3: the guard rejects with NOT_FOUND when the asset row is missing, else with
\* FORBIDDEN when the stored owner is not the caller, else with VERSION_CONFLICT
\* carrying the expected and the stored version when these differ; the wrapped
\* operation is then never started and no table and no stored object changes.
C3_GuardPrecedence ==
    [][\A r \in Slots : GuardStep(r) =>
          LET row == asset[req'[r].assetId]
              call == req'[r]
          IN  /\ UNCHANGED db
              /\ row = NoRow => Rejected(r, "NOT_FOUND")
              /\ (row # NoRow /\ row.owner_id # call.user) => Rejected(r, "FORBIDDEN")
              /\ (row # NoRow /\ row.owner_id = call.user /\ row.version # call.version)
                    => /\ Rejected(r, "VERSION_CONFLICT")
                       /\ call.res.expectedVersion = call.version
                       /\ call.res.currentVersion = row.version
              /\ (row # NoRow /\ row.owner_id = call.user /\ row.version = call.version)
                    => call.pc # "done"]_vars

\* a rename sent with version 2 against stored version 3 was rejected, row untouched
C3_Witness ==
    \E r \in Slots :
       /\ Answered(r, {"renameAsset"})
       /\ req[r].version = 2
       /\ req[r].res.code = "VERSION_CONFLICT"
       /\ req[r].res.expectedVersion = 2
       /\ req[r].res.currentVersion = 3
       /\ StoredVersionIs(req[r].assetId, 3)

NoRowSelected(r) == AssetByIdVersion(req[r].assetId, req[r].version) = {}

\* C4: when the version-conditioned write of renameAsset, deleteAsset or
\* finalizeUpload selects no row, the request answers VERSION_CONFLICT.
C4_ZeroRowsIsVersionConflict ==
    [][\A r \in Slots :
          ( /\ Acting(r)
            /\ req[r].pc \in {"rename_update", "delete_row", "fin_commit"}
            /\ NoRowSelected(r) )
          => Rejected(r, "VERSION_CONFLICT")]_vars

StatusIs(row, status) == row # NoRow /\ row.status = status

Finalizing(r) == req[r].op = "finalizeUpload"

\* C5: no step of a finalizeUpload call takes a ready asset out of ready.
C5_ReadyIsTerminal ==
    [][\A r \in Slots :
          ( /\ Acting(r) /\ Finalizing(r)
            /\ StatusIs(asset[req[r].assetId], "ready") )
          => StatusIs(asset'[req[r].assetId], "ready")]_vars

\* C6: no step of a finalizeUpload call makes a corrupt asset ready.
C6_CorruptIsTerminal ==
    [][\A r \in Slots :
          ( /\ Acting(r) /\ Finalizing(r)
            /\ StatusIs(asset[req[r].assetId], "corrupt") )
          => ~StatusIs(asset'[req[r].assetId], "ready")]_vars

HoldsTicket(r) ==
    ticket[req[r].assetId] # NoRow /\ ticket[req[r].assetId].user_id = req[r].user

\* C7: a finalizeUpload call that arrives with the ticket after a finalize of that
\* ticket succeeded, the asset row still being there, goes no further than the
\* replay check (no marking, no hashing, no write) and answers with the ready asset.
C7_ReplayIsIdempotent ==
    \A r \in Slots :
       ( /\ Finalizing(r) /\ req[r].after /\ HoldsTicket(r)
         /\ asset[req[r].assetId] # NoRow )
       => /\ req[r].pc \in {"fin_replay", "done"}
          /\ req[r].pc = "done"
               => /\ req[r].res.code = "ok"
                  /\ req[r].res.data.status = "ready"

\* C8: a finalizeUpload call that reaches the conditional write either performs
\* it, taking the version from the one it sent to the next, or, when another
\* finalize has won, answers VERSION_CONFLICT.
C8_OneFinalizeWins ==
    [][\A r \in Slots :
          (Acting(r) /\ req[r].pc = "fin_commit")
          => IF NoRowSelected(r)
             THEN req[r].assetId \in finalized => Rejected(r, "VERSION_CONFLICT")
             ELSE /\ StatusIs(asset'[req[r].assetId], "ready")
                  /\ asset'[req[r].assetId].version = req[r].version + 1]_vars

\* C9: a server digest that equals the client digest up to letter case passes the
\* comparison, and the conditional write that then finds the stored version equal
\* to the one sent stores the server digest, status ready and that version plus
\* one in a single step, touches nothing else and answers with the stored row.
C9_FinalizeCommits ==
    [][\A r \in Slots : Acting(r) =>
          LET a == req[r].assetId
          IN  /\ ( /\ req[r].pc = "fin_hash"
                   /\ req[r].clientSha256 = "abc123"
                   /\ req'[r].serverSha256 = "ABC123" )
                 => req'[r].pc = "fin_commit"
              /\ (req[r].pc = "fin_commit" /\ ~NoRowSelected(r))
                 => /\ asset'[a] = [asset[a] EXCEPT !.sha256 = req[r].serverSha256,
                                                    !.status = "ready",
                                                    !.version = req[r].version + 1]
                    /\ UNCHANGED <<ticket, share, object>>
                    /\ req'[r].pc = "done"
                    /\ req'[r].res.code = "ok"
                    /\ req'[r].res.data = asset'[a]]_vars

\* the first finalize of a draft asset at version 1 answered ready at version 2
C9_Witness ==
    \E r \in Slots :
       /\ Answered(r, {"finalizeUpload"})
       /\ req[r].version = 1 /\ ~req[r].after
       /\ req[r].res.code = "ok"
       /\ req[r].res.data = asset[req[r].assetId]
       /\ req[r].res.data.status = "ready"
       /\ req[r].res.data.version = 2
       /\ req[r].res.data.sha256 = "ABC123"
       /\ now <= ticket[req[r].assetId].expires_at

ArrivesUnused(r) ==
    /\ req[r].pc = "idle"
    /\ req'[r].op = "finalizeUpload"
    /\ ticket[req'[r].assetId] # NoRow
    /\ ticket[req'[r].assetId].user_id = req'[r].user
    /\ ~ticket[req'[r].assetId].used

\* C11 (as stated): a finalizeUpload call that finds its ticket unused at the
\* instant now = expires_at is treated as expired: it answers BAD_REQUEST and goes
\* on neither to marking the ticket nor to hashing.
C11_ExpiredAtExpiryInstant ==
    [][\A r \in Slots :
          (ArrivesUnused(r) /\ now = ticket[req'[r].assetId].expires_at)
          => Rejected(r, "BAD_REQUEST")]_vars

\* C11 (amended): a finalizeUpload call that finds its ticket unused answers
\* BAD_REQUEST exactly when now is later than expires_at; at the instant
\* now = expires_at, as before it, the call goes on to mark the ticket.
C11_ExpiryIsStrict ==
    [][\A r \in Slots : ArrivesUnused(r) =>
          IF now > ticket[req'[r].assetId].expires_at
          THEN Rejected(r, "BAD_REQUEST")
          ELSE req'[r].pc = "fin_mark" /\ req'[r].res.code = "none"]_vars

\* a finalize holding an unused ticket is about to mark it at the instant of expiry
C11_Witness ==
    \E r \in Slots :
       /\ Finalizing(r) /\ req[r].pc = "fin_mark"
       /\ ~req[r].ticket.used
       /\ now = req[r].ticket.expires_at
       /\ now = UPLOAD_TICKET_TTL

VersionOf(row) == IF row = NoRow THEN 0 ELSE row.version

\* the step in which a mutation performs its write: the share upsert, the share
\* delete, and the conditional update of a rename or a finalize that selects the row
SuccessfulWrite(r) ==
    /\ Acting(r)
    /\ \/ req[r].pc \in {"share_upsert", "revoke_delete"}
       \/ req[r].pc \in {"rename_update", "fin_commit"} /\ ~NoRowSelected(r)
    /\ asset[req[r].assetId] # NoRow

\* C12: the write of every successful finalizeUpload, renameAsset, shareAsset and
\* revokeShare takes the asset's stored version up by exactly one, no step takes
\* the version of a stored row down, and a shareAsset or revokeShare that
\* succeeds answers with the version it sent plus one.
C12_EveryMutationBumpsVersion ==
    [][\A r \in Slots :
          LET a == req[r].assetId
          IN  /\ SuccessfulWrite(r)
                    => VersionOf(asset'[a]) = VersionOf(asset[a]) + 1
              /\ \A b \in AssetIds :
                    asset'[b] # NoRow => VersionOf(asset'[b]) >= VersionOf(asset[b])
              /\ ( /\ Acting(r) /\ req[r].op \in {"shareAsset", "revokeShare"}
                    /\ req'[r].pc = "done" /\ req'[r].res.code = "ok" )
                    => req'[r].res.data.version = req[r].version + 1]_vars

ObjectAt(path) == {o \in object : o.path = path}

\* a deleteAsset call that is past its storage removal and before its row delete
DeletingRow(a) ==
    \E r \in Slots :
       req[r].op = "deleteAsset" /\ req[r].pc = "delete_row" /\ req[r].assetId = a

\* C13: a metadata row does not survive the removal of its stored object: the row
\* of a ready asset (whose object was uploaded and hashed) has its object in
\* storage, except while the deleteAsset call that removed the object is still
\* on its way to the row delete.
C13_NoRowWithoutObject ==
    \A a \in AssetIds :
       StatusIs(asset[a], "ready")
       => ObjectAt(asset[a].storage_path) # {} \/ DeletingRow(a)

\* the inputs the validators are to refuse
InvalidUpload(filename, mime, size) ==
    \/ mime \notin ALLOWED_MIME_TYPES
    \/ ~(0 < size /\ size <= 50 * 1024 * 1024)
    \/ sanitizeFilename(filename) = <<>>

FailsBeforeAnyWrite(r) ==
    /\ Rejected(r, "BAD_REQUEST")
    /\ UNCHANGED <<asset, ticket, share, object, signedUrl, issued>>

\* C14: the arrival of a createUploadUrl call whose mime is not allowed, whose size
\* is not in (0, 50 MiB] or whose filename sanitizes to empty, and the arrival of a
\* renameAsset call whose filename sanitizes to empty, answers BAD_REQUEST in that
\* same step and leaves every row, every signed upload URL and every stored
\* object as it was.
C14_ValidationPrecedesWrites ==
    [][\A r \in Slots, u \in Users, a \in AssetIds :
          /\ \A f \in CreateNames, m \in Mimes, z \in Sizes :
                (InvalidUpload(f, m, z) /\ CreateUploadUrl(r, u, f, m, z, TRUE))
                => FailsBeforeAnyWrite(r)
          /\ \A f \in RenameNames, v \in Versions :
                (sanitizeFilename(f) = <<>> /\ RenameAsset(r, u, a, f, v))
                => FailsBeforeAnyWrite(r)]_vars

\* next to the row of a created asset, untouched at version 1, a createUploadUrl
\* and a renameAsset of its owner at that version were both refused
C14_Witness ==
    \E r1, r2 \in Slots :
       /\ Answered(r1, {"createUploadUrl"}) /\ req[r1].res.code = "BAD_REQUEST"
       /\ Answered(r2, {"renameAsset"}) /\ req[r2].res.code = "BAD_REQUEST"
       /\ req[r2].user = "alice" /\ req[r2].version = 1
       /\ asset[req[r2].assetId] = AssetRow("a1", "alice", <<"a">>, <<"alice", "a1", <<"a">>>>)
       /\ ticket["a1"] # NoRow /\ signedUrl = {<<"alice", "a1", <<"a">>>>}

\* C15: validateFileSize(s) returns when 0 < s <= 50 * 1024 * 1024 and throws
\* BAD_REQUEST for every other integer s.
C15_SizeAcceptedIffInRange ==
    ret # NoRet =>
       /\ ret.code \in {"ok", "BAD_REQUEST"}
       /\ ret.code = "ok" <=> (0 < arg /\ arg <= 50 * 1024 * 1024)

\* a file of exactly 50 MiB was accepted
C15_Witness == ret = [code |-> "ok"] /\ arg = 52428800

HasSeparator(name) == \E i \in 1..Len(name) : name[i] \in {"/", "\\"}

HasDotDot(name) == \E i \in 1..(Len(name) - 1) : name[i] = "." /\ name[i + 1] = "."

\* C16: a name sanitizeFilename returns contains no '/' and no '\', and no two
\* dots in a row (hence no '..' and no '../'), whatever the input, also when
\* the two dots of the input were apart, with separators between them.
C16_NoSeparatorNoDotDot ==
    ret.code = "ok" => ~HasSeparator(ret.value) /\ ~HasDotDot(ret.value)

Reported(state) == {i \in 1..Len(sink) : sink[i].state = state}

TerminalStates == {"ready", "corrupt", "error"}

Terminals == UNION {Reported(t) : t \in TerminalStates}

Rank(state) ==
    CASE state = "requesting_ticket" -> 1
      [] state = "uploading" -> 2
      [] state = "verifying" -> 3
      [] state \in TerminalStates -> 4
      [] OTHER -> 0

\* C17: the states uploadFile reports are requesting_ticket first and once, then
\* uploading any number of times, then verifying at most once, then one state of
\* ready, corrupt, error, which is reported when the call ends and not before;
\* uploading is reported only with the ticket's assetId in hand, verifying only
\* once the PUT was sent and the transfer is over.
C17_ProgressOrder ==
    /\ run.pc = "idle" <=> sink = <<>>
    /\ \A i \in 1..Len(sink) : Rank(sink[i].state) > 0 /\ sink[i].assetId = run.uploadId
    /\ \A i \in 1..(Len(sink) - 1) : Rank(sink[i].state) <= Rank(sink[i + 1].state)
    /\ sink # <<>> => Reported("requesting_ticket") = {1}
    /\ Cardinality(Reported("verifying")) <= 1
    /\ Terminals = IF run.pc \in {"returned", "thrown"} THEN {Len(sink)} ELSE {}
    /\ Reported("uploading") # {}
          => /\ run.assetId # ""
             /\ \E i \in 1..Len(sent) : sent[i].op = "createUploadUrl"
    /\ Reported("verifying") # {}
          => /\ run.pc \notin {"auth", "ticket", "hash", "transfer"}
             /\ \E i \in 1..Len(sent) : sent[i].op = "PUT" /\ sent[i].assetId = run.assetId

\* an upload with MaxProgress progress events went through every state to ready
C17_Witness ==
    /\ run.pc = "returned"
    /\ [i \in 1..Len(sink) |-> sink[i].state]
          = <<"requesting_ticket", "uploading">>
              \o [i \in 1..MaxProgress |-> "uploading"] \o <<"verifying", "ready">>

\* the stages of an upload at which a network operation is in flight
InFlight == run.pc \in {"ticket", "transfer", "finalize"}

\* C18: when the Cancel button calls cancelUpload with the id the upload reports
\* to the sink while the ticket request, the byte transfer or the finalize call
\* is in flight, the upload's signal is aborted in that step (so that the
\* operation in flight fails and error is reported as the terminal state).
C18_CancelAbortsInFlight ==
    [][\A id \in UploadIds \cup AssetIds :
          (HandleCancel(id) /\ id = run.uploadId /\ InFlight)
          => run'.aborted]_vars

\* the requests a retryUpload call has put on the network
RetrySent == SelectSeq(sent, LAMBDA q : q.by = "retryUpload")

FileDigest(file) == CASE file = "photo" -> "abc123" [] file = "scan" -> "def456"

OwnedOps == GuardedOps \cup {"finalizeUpload"}

\* the call of slot r that takes the step: the one arriving, or the one under way
CallOf(r) == IF req[r].pc = "idle" THEN req'[r] ELSE req[r]

\* C20: no step of a renameAsset, shareAsset, revokeShare, deleteAsset or
\* finalizeUpload call made by a user other than the owner of the asset row
\* changes that row, the asset's shares, its upload ticket or its stored object.
C20_NonOwnerChangesNothing ==
    [][\A r \in Slots :
          ( /\ Acting(r)
            /\ CallOf(r).op \in OwnedOps
            /\ asset[CallOf(r).assetId] # NoRow
            /\ asset[CallOf(r).assetId].owner_id # CallOf(r).user )
          => UNCHANGED <<asset, share, ticket, object>>]_vars

\* bob's rename and bob's finalize of alice's uploaded draft were both refused,
\* and the row, its unused ticket and its object are as alice left them
C20_Witness ==
    \E r1, r2 \in Slots :
       /\ Answered(r1, {"renameAsset"}) /\ req[r1].user = "bob"
       /\ req[r1].res.code = "FORBIDDEN"
       /\ Answered(r2, {"finalizeUpload"}) /\ req[r2].user = "bob"
       /\ req[r2].res.code = "BAD_REQUEST"
       /\ asset["a1"] = AssetRow("a1", "alice", <<"a">>, <<"alice", "a1", <<"a">>>>)
       /\ ticket["a1"] # NoRow /\ ~ticket["a1"].used
       /\ ObjectAt(asset["a1"].storage_path) # {}
       /\ share = {}

\* C21: when the answer to a card's rename request is the server's
\* VERSION_CONFLICT error, the card's handler takes its version-conflict branch
\* (the refresh-and-retry alert), not its generic failure branch.
C21_ConflictBranchTaken ==
    [][\A r \in Slots :
          (HandleRename(r) /\ req[r].res.code = "VERSION_CONFLICT")
          => alert' = "conflict"]_vars

\* C22: a finalizeUpload call that finds its ticket unused when now is later than
\* expires_at answers BAD_REQUEST in that step: the ticket row (still unused), the
\* asset row (status and version), shares and stored objects are unchanged and
\* the call ends there, before marking and before the hashing call.
C22_ExpiredChangesNothing ==
    [][\A r \in Slots :
          (ArrivesUnused(r) /\ now > ticket[req'[r].assetId].expires_at)
          => /\ Rejected(r, "BAD_REQUEST")
             /\ UNCHANGED <<asset, ticket, share, object, signedUrl, finalized>>
             /\ ~ticket'[req'[r].assetId].used]_vars

\* alice's finalize was refused after expiry: ticket unused, asset draft at version 1
C22_Witness ==
    \E r \in Slots :
       /\ Answered(r, {"finalizeUpload"}) /\ req[r].user = "alice"
       /\ req[r].res.code = "BAD_REQUEST"
       /\ HoldsTicket(r) /\ ~ticket[req[r].assetId].used
       /\ now > ticket[req[r].assetId].expires_at
       /\ StatusIs(asset[req[r].assetId], "draft") /\ StoredVersionIs(req[r].assetId, 1)
       /\ ObjectAt(asset[req[r].assetId].storage_path) # {}

\* the step in which a finalizeUpload request arrives and finds its ticket used
ArrivesUsed(r) ==
    /\ req[r].pc = "idle"
    /\ req'[r].op = "finalizeUpload"
    /\ ticket[req'[r].assetId] # NoRow
    /\ ticket[req'[r].assetId].user_id = req'[r].user
    /\ ticket[req'[r].assetId].used

\* C23: a finalizeUpload call that finds its ticket used goes to the replay check
\* whatever the time; there, an asset that is ready is returned as it is stored,
\* also after the ticket's expiry, while with an asset that is not ready (or gone)
\* and an expired ticket the call answers BAD_REQUEST; neither step writes.
C23_ReplayBeforeExpiry ==
    [][\A r \in Slots :
          /\ ArrivesUsed(r) => req'[r].pc = "fin_replay" /\ UNCHANGED db
          /\ (Acting(r) /\ req[r].pc = "fin_replay")
                => LET row == asset[req[r].assetId]
                   IN  /\ UNCHANGED db
                       /\ StatusIs(row, "ready")
                             => /\ Rejected(r, "ok")
                                /\ req'[r].res.data = row
                       /\ (~StatusIs(row, "ready") /\ now > req[r].ticket.expires_at)
                             => Rejected(r, "BAD_REQUEST")]_vars

\* after the ticket's expiry, one finalize on the used ticket was answered with
\* the ready asset and another is at the replay check
C23_Witness ==
    \E r1, r2 \in Slots :
       /\ Answered(r1, {"finalizeUpload"}) /\ req[r1].after
       /\ req[r1].res.code = "ok" /\ req[r1].res.data.status = "ready"
       /\ req[r1].res.data = asset[req[r1].assetId]
       /\ Finalizing(r2) /\ req[r2].pc = "fin_replay" /\ req[r2].ticket.used
       /\ now > ticket[req[r1].assetId].expires_at

\* a finalizeUpload call that is in the pipeline and found its ticket used
Reentered(r) ==
    /\ Finalizing(r)
    /\ req[r].pc \in {"fin_replay", "fin_mark", "fin_hash", "fin_corrupt", "fin_commit"}
    /\ req[r].ticket.used

\* C24: a finalizeUpload call that found its ticket used and the asset not ready
\* goes through the whole pipeline again: the expiry test lets it on to the mark
\* when the ticket is not expired, the mark is followed by a hashing call, the
\* hashing call by the digest comparison; and a step of such a call that writes
\* status ready is the conditional commit with the stored version equal to the
\* supplied one and the digests of this second hashing call matching.
C24_ReplayRunsPipelineAgain ==
    [][\A r \in Slots :
          (Reentered(r) /\ Acting(r))
          => LET id == req[r].assetId
             IN  /\ (req[r].pc = "fin_replay" /\ ~StatusIs(asset[id], "ready"))
                       => IF now > req[r].ticket.expires_at
                          THEN Rejected(r, "BAD_REQUEST")
                          ELSE req'[r].pc = "fin_mark"
                 /\ req[r].pc = "fin_mark" => req'[r].pc = "fin_hash"
                 /\ req[r].pc = "fin_hash"
                       => /\ req'[r].pc \in {"fin_corrupt", "fin_commit"}
                          /\ req'[r].pc = "fin_commit"
                                => /\ req'[r].serverSha256 \in
                                         {o.sha256 : o \in ObjectAt(req[r].ticket.storage_path)}
                                   /\ HashMatches(req'[r].serverSha256, req[r].clientSha256)
                 /\ (asset'[id] # asset[id] /\ StatusIs(asset'[id], "ready"))
                       => /\ req[r].pc = "fin_commit"
                          /\ StoredVersionIs(id, req[r].version)
                          /\ asset'[id].version = req[r].version + 1]_vars

\* a call that found the ticket used has passed the second hashing and comparison
\* and stands before the commit, the asset having been marked corrupt by an
\* earlier finalize and still carrying the supplied version
C24_Witness ==
    \E r \in Slots :
       /\ Reentered(r) /\ req[r].pc = "fin_commit"
       /\ StatusIs(asset[req[r].assetId], "corrupt")
       /\ StoredVersionIs(req[r].assetId, req[r].version)
       /\ HashMatches(req[r].serverSha256, req[r].clientSha256)

\* C25: in every reachable state the digest of an asset row is set only if a
\* finalizeUpload of that asset passed the digest comparison and committed; the
\* row of a ready asset has a digest, and this digest is the one the server
\* computes from the object stored at the row's path (a deleteAsset call that is
\* between its storage removal and its row delete excepted); the row of a draft
\* asset has no digest.
C25_DigestIsVerifiedDigest ==
    \A a \in AssetIds :
       asset[a] # NoRow
       => /\ asset[a].sha256 # "null" => a \in finalized
          /\ asset[a].status = "ready"
                => /\ asset[a].sha256 # "null"
                   /\ \/ DeletingRow(a)
                      \/ asset[a].sha256 \in
                            {o.sha256 : o \in ObjectAt(asset[a].storage_path)}
          /\ asset[a].status = "draft" => asset[a].sha256 = "null"

C28_TrueMeansRowGone ==
    [][\A r \in Slots :
          (Acting(r) /\ req'[r].op = "deleteAsset" /\ Rejected(r, "ok"))
          => asset'[req'[r].assetId] = NoRow]_vars

\* C26: no step of a renameAsset, shareAsset or revokeShare call writes the asset
\* row or the shares while the asset is a draft, and the commit of a
\* finalizeUpload call with version 1 and a matching digest on a draft asset
\* succeeds.
C26_NoMutationOfDraft ==
    [][\A r \in Slots :
          Acting(r)
          => /\ ( /\ req[r].op \in {"renameAsset", "shareAsset", "revokeShare"}
                  /\ (asset' # asset \/ share' # share) )
                => ~StatusIs(asset[req[r].assetId], "draft")
             /\ ( /\ Finalizing(r) /\ req[r].pc = "fin_commit" /\ req[r].version = 1
                  /\ StatusIs(asset[req[r].assetId], "draft") )
                => Rejected(r, "ok")]_vars

SamePair(x, assetId, toUser) == x.asset_id = assetId /\ x.to_user = toUser

\* C29: there is never more than one share of an asset with a user; the write of
\* a shareAsset call for a pair that has a share replaces that share by one with
\* the canDownload of the call, adding none; the write of a revokeShare call
\* removes the share of its pair and leaves the asset rows and every other share
\* as they were.
C29_OneSharePerPair ==
    [][/\ \A x, y \in share' :
            SamePair(x, y.asset_id, y.to_user) => x = y
       /\ \A r \in Slots :
            Acting(r)
            => LET others == {x \in share : ~SamePair(x, req[r].assetId, req[r].toUser)}
               IN  /\ req[r].pc = "share_upsert"
                        => /\ share' = others \cup
                                 {[asset_id |-> req[r].assetId, to_user |-> req[r].toUser,
                                   can_download |-> req[r].canDownload]}
                           /\ asset' = asset
                   /\ req[r].pc = "revoke_delete"
                        => share' = others /\ asset' = asset]_vars

\* bob's share was revoked by one call, carol's written by another, and carol's
\* share is the only one left
C29_Witness ==
    \E r1, r2 \in Slots :
       /\ Answered(r1, {"revokeShare"}) /\ req[r1].toUser = "bob"
       /\ req[r1].res.code = "ok"
       /\ Answered(r2, {"shareAsset"}) /\ req[r2].toUser = "carol"
       /\ req[r2].res.code = "ok"
       /\ share = {[asset_id |-> "a1", to_user |-> "carol", can_download |-> FALSE]}

\* the asset is ready and the user is its owner or holds a share with can_download
Entitled(userId, assetId) ==
    /\ StatusIs(asset[assetId], "ready")
    /\ \/ asset[assetId].owner_id = userId
       \/ [asset_id |-> assetId, to_user |-> userId, can_download |-> TRUE] \in share

Downloading(r) == req'[r].op = "getDownloadUrl"

\* C30: a getDownloadUrl call goes on to the signed URL only from a read that finds
\* the asset ready and the caller its owner or the holder of a share with
\* can_download, it answers with a URL only after that, and only the step that
\* answers with the URL writes a download_audit record; a call whose read finds
\* the asset not ready, the share revoked or can_download false answers FORBIDDEN
\* or BAD_REQUEST and writes none.
C30_DownloadOnlyWhenEntitled ==
    [][\A r \in Slots :
          (Acting(r) /\ Downloading(r))
          => LET reads == req[r].pc \in {"idle", "dl_shared"}
                 entitled == Entitled(req'[r].user, req'[r].assetId)
             IN  /\ req'[r].pc = "dl_sign" => reads /\ entitled
                 /\ req'[r].pc = "dl_audit" => req[r].pc = "dl_sign"
                 /\ Rejected(r, "ok") => req[r].pc = "dl_audit"
                 /\ download_audit' # download_audit => Rejected(r, "ok")
                 /\ (reads /\ ~entitled)
                       => /\ \/ req[r].pc = "idle" /\ req'[r].pc = "dl_shared"
                             \/ Rejected(r, "FORBIDDEN")
                             \/ Rejected(r, "BAD_REQUEST")
                          /\ UNCHANGED download_audit
                 /\ (req[r].pc = "dl_shared" /\ ~entitled)
                       => req'[r].pc = "done"]_vars

\* bob downloaded while his share allowed it; the share now has can_download false
\* and his next call was refused, the only audit record being the earlier one
C30_Witness ==
    \E r \in Slots :
       /\ Answered(r, {"getDownloadUrl"}) /\ req[r].user = "bob"
       /\ req[r].res.code = "FORBIDDEN"
       /\ StatusIs(asset[req[r].assetId], "ready")
       /\ share = {[asset_id |-> req[r].assetId, to_user |-> "bob", can_download |-> FALSE]}
       /\ download_audit = {[asset_id |-> req[r].assetId, user_id |-> "bob"]}

\* alice's assets that match the search string
Matching == {x \in arg.rows : x.owner_id = "alice" /\ (arg.q # <<"A">> \/ x.filename = <<"a">>)}

\* C31: a myAssets answer has at most first edges, in descending order of
\* creation; hasNextPage is true iff a matching asset older than the last
\* returned one remains; and over the calls made with after = the previous
\* endCursor no asset is returned twice, the assets returned are the newest
\* matching ones, a page that has a next page is full, and when hasNextPage is
\* false every matching asset was returned.
C31_PagesVisitEachAssetOnce ==
    ret # NoRet
    => LET edges == ret.value.edges
           seenIds == {arg.seen[i] : i \in 1..Len(arg.seen)}
           left == {x \in Matching : x.id \notin seenIds}
       IN  /\ Len(edges) <= arg.first
           /\ ret.value.pageInfo.hasNextPage => Len(edges) = arg.first
           /\ \A i, j \in 1..Len(edges) :
                 i < j => edges[i].node.createdAt > edges[j].node.createdAt
           /\ ret.value.pageInfo.hasNextPage <=> left # {}
           /\ \A i, j \in 1..Len(arg.seen) : i < j => arg.seen[i] # arg.seen[j]
           /\ seenIds \subseteq {x.id : x \in Matching}
           /\ \A x \in left : \A y \in seenIds : x.created_at < y

\* the last of several pages: three of alice's assets visited two at a time by
\* a search that leaves a newer asset of hers out
C31_Witness ==
    /\ ret # NoRet
    /\ ~ret.value.pageInfo.hasNextPage
    /\ arg.after # Null
    /\ arg.first = 2
    /\ arg.q = <<"A">>
    /\ Len(arg.seen) = 3
    /\ \E x \in arg.rows :
         x.owner_id = "alice" /\ x.filename = <<"b">> /\ x.created_at > arg.seen[3]

\* the requests uploadFile has put on the network for an operation
SentByUpload(requests, op) ==
    {i \in 1..Len(requests) : requests[i].by = "uploadFile" /\ requests[i].op = op}

\* the messages of the errors with which uploadWithProgress rejects
TransferFailures ==
    {"Simulated network failure", "Upload failed with status", "Upload failed",
     "Upload aborted"}

TransferFailed(reports) ==
    \E i \in 1..Len(reports) :
       reports[i].state = "error" /\ reports[i].error \in TransferFailures

\* C32: uploadFile sends finalizeUpload in the step that ends the byte transfer
\* with a load, not aborted, after the createUploadUrl request and the PUT were
\* sent, the ticket's assetId is known and the digest of the file is computed,
\* and the request carries that assetId and digest; once the transfer has
\* failed, was aborted or was cut by the simulated failure, no finalizeUpload
\* request of uploadFile is on the network.
C32_FinalizeAfterTransfer ==
    [][/\ SentByUpload(sent', "finalizeUpload") # SentByUpload(sent, "finalizeUpload")
            => /\ run.pc = "transfer" /\ run'.pc = "finalize"
               /\ ~run.aborted /\ ~run.xhrAborted
               /\ SentByUpload(sent, "createUploadUrl") # {}
               /\ SentByUpload(sent, "PUT") # {}
               /\ SentByUpload(sent, "finalizeUpload") = {}
               /\ run.assetId \in AssetIds
               /\ run.clientSha256 = computeFileSHA256(run.file)
               /\ sent' = Append(sent, Request("uploadFile", "finalizeUpload", run.file,
                                               run.assetId, run.clientSha256, 1))
       /\ TransferFailed(sink') => SentByUpload(sent', "finalizeUpload") = {}]_vars

\* a flaky upload cut by the simulated failure after a progress report: the
\* ticket request and the PUT were sent, a finalizeUpload was not
C32_Witness ==
    /\ run.pc = "thrown" /\ run.simulateFlaky /\ run.events > 0
    /\ sink[Len(sink)].error = "Simulated network failure"
    /\ SentByUpload(sent, "PUT") # {}
    /\ SentByUpload(sent, "finalizeUpload") = {}

\* uploadFile has returned after a finalizeUpload that answered with a ready asset
Succeeded ==
    /\ run.pc = "returned"
    /\ sink # <<>> /\ sink[Len(sink)].state = "ready"

\* C33: once uploadFile has returned after a successful finalizeUpload, a
\* cancelUpload call under any key changes nothing in the browser: no controller
\* is aborted or removed and no report is made; and no later step adds a report
\* or touches the finished call, so the last reported state stays ready.
C33_CancelAfterReadyIsNoOp ==
    [][Succeeded
         => /\ \A id \in UploadIds \cup AssetIds : CancelUpload(id) => UNCHANGED browser
            /\ sink' = sink
            /\ run' = run
            /\ Succeeded']_vars

\* the upload has ended ready and no controller is left under its ids
C33_Witness ==
    /\ Succeeded
    /\ \A e \in uploads : e.key \notin {run.uploadId, run.assetId}
    /\ \E c \in cards : c.state = "ready"

\* the name as it stands before the length limit is applied
BeforeLimit(filename) ==
    StripDots(Trim(RemoveControl(NormalizeNFC(RemoveSeparators(RemoveDotDot(filename))))))

\* the text from the last dot on
Extension(name) == SubSeq(name, LastIndexOfDot(name), Len(name))

EndsWith(name, suffix) ==
    /\ Len(suffix) <= Len(name)
    /\ SubSeq(name, Len(name) - Len(suffix) + 1, Len(name)) = suffix

\* C34: a name sanitizeFilename returns has at most 255 characters, and when the
\* name was longer than that before the limit and had a dot after its first
\* character, the returned name ends with the text from that last dot on, also
\* when this extension is longer than the limit.
C34_AtMostMaxNameLength ==
    ret.code = "ok"
    => /\ Len(ret.value) <= MaxNameLength
       /\ (Len(BeforeLimit(arg)) > MaxNameLength /\ LastIndexOfDot(BeforeLimit(arg)) > 1)
             => EndsWith(ret.value, Extension(BeforeLimit(arg)))

\* C35: sanitizing a name sanitizeFilename returned returns the same name again
\* (and does not throw), so the name generateStoragePath puts into the storage
\* path of an upload is the name createUploadUrl stores in the asset row.
C35_SanitizeIsIdempotent ==
    ret.code = "ok"
    => /\ sanitizeFilename(ret.value) = ret.value
       /\ generateStoragePath("alice", "a1", ret.value) = <<"alice", "a1", ret.value>>

\* C36: in the step in which a finalizeUpload call answers with an asset, on the
\* first finalize or on a replay, the digest the call supplied equals the digest
\* stored on that asset up to letter case; a call with another digest gets no
\* success answer.
C36_SuccessMeansDigestMatch ==
    [][\A r \in Slots :
          (Acting(r) /\ Finalizing(r) /\ Rejected(r, "ok"))
          => HashMatches(req'[r].res.data.sha256, req[r].clientSha256)]_vars

\* a createUploadUrl call that has inserted the asset row and not yet the ticket
CreatingTicket(a) ==
    \E r \in Slots :
       req[r].op = "createUploadUrl" /\ req[r].pc = "create_ticket" /\ req[r].assetId = a

\* C37: in every state reached by createUploadUrl calls, failed ones included,
\* the row of a draft asset has an upload ticket with the same asset id, owner
\* and storage path, except while the call that inserted the row is on its way
\* to the ticket insert.
C37_DraftHasTicket ==
    \A a \in AssetIds :
       (StatusIs(asset[a], "draft") /\ ~CreatingTicket(a))
       => /\ ticket[a] # NoRow
          /\ ticket[a].asset_id = a
          /\ ticket[a].user_id = asset[a].owner_id
          /\ ticket[a].storage_path = asset[a].storage_path

\* the uploadFile call has returned or thrown
Ended == run.pc \in {"returned", "thrown"}

\* C38: when a run of uploadFile has ended, by returning after a success or an
\* integrity error or by throwing after a server error, a failed transfer, a
\* missing token or a cancellation, the sink holds exactly one report of ready,
\* corrupt or error, and it is the last report, error exactly when the run threw;
\* a run that has not ended has made none.
C38_OneTerminalReportLast ==
    IF Ended
    THEN /\ Cardinality(Terminals) = 1
         /\ Len(sink) \in Terminals
         /\ sink[Len(sink)].state = "error" <=> run.pc = "thrown"
    ELSE Terminals = {}

\* a run cancelled during the transfer: the reports made before, then one error
C38_Witness ==
    /\ run.pc = "thrown" /\ run.aborted /\ run.xhrAborted
    /\ Len(sink) > 2
    /\ sink[Len(sink)].error = "Upload aborted"
    /\ Cardinality(Terminals) = 1

Queued == {queue[i] : i \in 1..Len(queue)}

\* C39: at no time is more than one task being awaited, and tasks start in the
\* order they were added: the queue holds the tasks in that order, a task put
\* back after failing offline stands before all others, and the task a step
\* starts is the earliest added of all tasks that were queued.
C39_OneTaskInOrder ==
    [][/\ Cardinality(running') <= 1
       /\ \A i, j \in 1..Len(queue') : i < j => queue'[i] < queue'[j]
       /\ \A t \in running' : \A u \in Queued' : t < u
       /\ \A t \in running' \ running :
            /\ \A u \in Queued \cup {added'} : t <= u
            /\ running = {} \/ running \cap running' = {}
       /\ \A t \in running :
            (TaskSettles(t, FALSE) /\ ~onLine) => queue' = <<t>> \o queue]_vars

\* the first task failed offline and stands at the head again, before a task
\* added meanwhile
C39_Witness ==
    /\ queue = <<1, 2>>
    /\ running = {}
    /\ ~processing
    /\ [task |-> 1, ok |-> FALSE, online |-> FALSE] \in settled

\* the task t completed, or failed while the browser was online
Final(t) == \E s \in settled : s.task = t /\ (s.ok \/ s.online)

Quiet == queue = <<>> /\ ~processing

\* C40: every added task is queued or awaited until it has completed or failed
\* while the browser was online, and after that it is never queued or run
\* again; a task that fails while the browser is offline is back in the queue;
\* and when the browser stays online from some point on, with every awaited
\* task settling, the queue ends up empty with processing = false.
C40_NoTaskLost ==
    /\ [](\A t \in 1..added : t \in Queued \/ t \in running \/ Final(t))
    /\ [](\A t \in 1..added : Final(t) => t \notin Queued \cup running)
    /\ [][\A t \in running :
            (TaskSettles(t, FALSE) /\ ~onLine) => t \in Queued' /\ ~Final(t)']_vars
    /\ (<>[]onLine => <>[]Quiet)

\* all tasks are gone: the first failed offline, was put back and completed on
\* its second run, the second was dropped after failing online
C40_Witness ==
    /\ Quiet
    /\ added = MaxTasks
    /\ [task |-> 1, ok |-> FALSE, online |-> FALSE] \in settled
    /\ [task |-> 1, ok |-> TRUE, online |-> TRUE] \in settled
    /\ [task |-> 2, ok |-> FALSE, online |-> TRUE] \in settled
    /\ Final(3)

====
